---- MODULE Spec2Model ----
(***************************************************************************)
(* OSS-Guardian: a model of the analysis pipeline.                         *)
(*                                                                         *)
(*   SpecRisk    engines/analysis/risk_assessor.py                         *)
(*   SpecThreat  engines/analysis/threat_identifier.py                     *)
(*   SpecTaint   engines/static/{,go_,java_}taint_analysis.py              *)
(*   SpecSandbox engines/dynamic/sandbox.py, fuzzer.py                     *)
(*   SpecMain    main_controller.py                                        *)
(*   SpecLog     engines/dynamic/syscall_monitor.py (_log)                 *)
(*   SpecConc    main_controller.py, two calls at once                     *)
(*   SpecMonitor engines/dynamic/{process_monitor,go_,java_dynamic_runner} *)
(*   SpecPattern engines/static/pattern_matcher.py                         *)
(*   SpecCfg     engines/static/{,go_}cfg_analysis.py                      *)
(*   SpecHook    engines/dynamic/syscall_monitor.py and its log analyzers  *)
(*   SpecPipe    main_controller.py analyze_file, findings to counters     *)
(*                                                                         *)
(* Every specification owns one group of variables and leaves the other    *)
(* groups at their idle values.                                            *)
(***************************************************************************)
EXTENDS Integers, Sequences, FiniteSets, TLC

VARIABLES
    \* ---- risk_assessor.py
    risk_threats,      \* the `threats` list handed to assess_risk (severities)
    risk_result,       \* what assess_risk returned, or NoResult
    risk_counts_result, \* what assess_risk_from_counts returned on the histogram
    \* ---- threat_identifier.py
    aggregated,        \* the aggregated bundle handed to identify_threats
    threats,           \* what identify_threats returned
    thr_pc,            \* "build" until identify_threats has run, then "done"
    agg_result,        \* what aggregate_results returned, or NoResult
    thr_risk,          \* what assess_risk returned on `threats`, or NoResult
    \* ---- taint_analysis.py, go_taint_analysis.py, java_taint_analysis.py
    t_lang,            \* which analyzer runs: "python", "go", "java" or "none"
    t_lineno,          \* number of the line (statement) handled last
    t_cur,             \* the line (statement) handled last
    tainted_vars,      \* Go/Java: the dict var -> origin, in insertion order
    seen_flows,        \* Go/Java: the set of flow keys
    current_tainted_vars, \* Python: TaintAnalyzer.current_tainted_vars
    var_assignments,   \* Python: TaintAnalyzer.var_assignments
    taint_flows,       \* the list of flows emitted so far
    src_assign,        \* history: var -> line that last assigned it a source
    t_threats,         \* Python: [threats |-> identify_threats(aggregated)], NoResult before
    \* ---- sandbox.py
    sb_mode,           \* log_mode of the run_in_sandbox call: "queue", "file", "none"
    sb_pc,             \* where run_in_sandbox stands
    sb_worker,         \* the worker process: "none", "exec", "finishing", "exited", "killed"
    sb_ignore_term,    \* the target has set SIGTERM to SIG_IGN
    sb_raised,         \* how the target's code ended, "" while it runs
    sb_exitcode,       \* exit code of the worker process
    sb_stdout,         \* stdout_io (queue mode) / the stdout pipe (file mode)
    sb_stderr,         \* stderr_io (queue mode) / the stderr pipe (file mode)
    sb_log,            \* log_queue (queue mode) / the log file (file mode)
    sb_result_queue,   \* result_queue
    sb_timed_out,      \* the local timed_out
    sb_proc,           \* file mode: the CompletedProcess `result`
    sb_result,         \* what run_in_sandbox returned, or NoResult
    sb_at_timeout,     \* history: what the target had produced, and how it had ended, when the timeout struck
    \* ---- main_controller.py
    m_fn,              \* the function called: "analyze_file", "analyze_multiple_files", "none"
    m_pc,              \* where the call stands; "returned" or "raised" when it is over
    m_input,           \* what the call was given: the file(s) and the settings
    m_results,         \* the `results` dict
    m_failed,          \* history: a stage raised, or the file could not be read
    \* ---- syscall_monitor.py _log, seen from the threads of one target
    lg_mode,           \* "queue" (log_queue) or "file" (log_file), "none" before the run
    lg_pc,             \* "idle", "run", "ended", "returned"
    lg_clock,          \* the wall clock datetime.now() reads
    lg_pending,        \* thread -> the entry it has formatted and not yet written, or NoResult
    lg_dest,           \* the queue's contents / the log file's lines
    lg_emitted,        \* history: the entries in the order they were timestamped
    lg_entries,        \* the log_entries run_in_sandbox returned
    \* ---- two analyze_file calls running at once
    cc_clock,          \* the wall clock, in ticks
    cc_pc,             \* call -> "idle", "dynamic", "reports", "done"
    cc_file,           \* call -> the file_path it analyzes
    cc_log_file,       \* call -> the sandbox log file it chose
    cc_reports,        \* call -> results['reports']['json']
    cc_fs,             \* the file system: path -> <<the calls whose text the file holds>>
    \* ---- process_monitor.py, go_dynamic_runner.py, java_dynamic_runner.py
    mon_runner,        \* "process_monitor", "go", "java"; "none" before the call
    mon_pc,            \* "idle", "loop", "returned"
    mon_target,        \* the target process: "none", "running", "exited", "killed"
    mon_ignore_term,   \* the target ignores SIGTERM
    mon_child,         \* a process the target spawned: "none", "running"
    mon_conns,         \* the inet connections the processes hold now
    mon_files,         \* the files the processes hold open now
    mon_samples,       \* how many samples were taken
    mon_seen_net,      \* network_seen / seen_connections
    mon_seen_files,    \* file_seen / seen_files
    mon_network,       \* network_activities
    mon_file_acts,     \* file_activities
    mon_timed_out,     \* the local timed_out, returned as such
    mon_obs_net,       \* history: the (pid, laddr, raddr, status) the samples saw
    mon_obs_files,     \* history: the (pid, path, mode) the samples saw
    \* ---- fuzzer.py
    fz_results,        \* the list `results` of fuzz_execution
    fz_done,           \* the outcome of the sandbox run has been recorded
    \* ---- pattern_matcher.py
    pm_lines,          \* source_code.split('\n'): each line a sequence of tokens
    pm_rules,          \* the `rules` list
    pm_matches,        \* what match_patterns returned
    pm_pc,             \* "build" until match_patterns has run, then "done"
    \* ---- cfg_analysis.py, go_cfg_analysis.py
    cfg_lang,          \* "python" or "go" once analyze has run, "none" before
    cfg_go_lines,      \* the Go source, line by line
    cfg_structures,    \* what analyze returned
    \* ---- engines/dynamic/syscall_monitor.py, file_monitor.py, memory_analyzer.py
    hk_rts,            \* the HookedRuntime instances created so far
    hk_global,         \* module-level _hook_runtime: an index of hk_rts, 0 for None
    hk_bound,          \* entry point -> 0 (the original function) or the runtime whose hook it is
    hk_log,            \* the log_queue: the entries put so far
    hk_call,           \* history: the last call of the target and whether its entry point was hooked
    hk_trace,          \* history: what that call did, in order (log entries, real invocations)
    hk_raised,         \* history: whether that call raised
    hk_ops,            \* install / uninstall / constructor calls so far
    hk_calls,          \* target calls so far
    hk_pc,             \* "run" while the target runs, "analyzed" after the log was analyzed
    hk_file_acts,      \* analyze_file_activity(log entries)
    hk_mem,            \* analyze_memory(log_source = log entries)
    \* main_controller.py analyze_file, from findings to counters
    pl_pc,              \* "idle", "collect", "done"
    pl_lang,            \* the language detected
    pl_toolchain,       \* psutil and the language's toolchain are installed
    pl_pattern_matches, \* what match_patterns returned
    pl_taint_flows,     \* what the taint analyzer returned
    pl_calls,           \* the hooked calls of the Python target
    pl_conns,           \* the connections the Go/Java sampler saw
    pl_agg              \* NoResult, or what aggregate_results returned

riskVars == <<risk_threats, risk_result, risk_counts_result>>
thrVars == <<aggregated, threats, thr_pc, agg_result, thr_risk>>
taintVars == <<t_lang, t_lineno, t_cur, tainted_vars, seen_flows,
               current_tainted_vars, var_assignments, taint_flows, src_assign,
               t_threats>>

sbWorkerVars == <<sb_worker, sb_ignore_term, sb_raised, sb_exitcode, sb_stdout,
                  sb_stderr, sb_log, sb_result_queue>>
sbParentVars == <<sb_mode, sb_pc, sb_timed_out, sb_proc, sb_result, sb_at_timeout>>
sbVars == <<sbWorkerVars, sbParentVars>>

mainVars == <<m_fn, m_pc, m_input, m_results, m_failed>>

lgVars == <<lg_mode, lg_pc, lg_clock, lg_pending, lg_dest, lg_emitted, lg_entries>>

ccVars == <<cc_clock, cc_pc, cc_file, cc_log_file, cc_reports, cc_fs>>

monVars == <<mon_runner, mon_pc, mon_target, mon_ignore_term, mon_child, mon_conns,
             mon_files, mon_samples, mon_seen_net, mon_seen_files, mon_network,
             mon_file_acts, mon_timed_out, mon_obs_net, mon_obs_files>>

fzVars == <<fz_results, fz_done>>

pmVars == <<pm_lines, pm_rules, pm_matches, pm_pc>>

cfgVars == <<cfg_lang, cfg_go_lines, cfg_structures>>

hkVars ==
    <<hk_rts, hk_global, hk_bound, hk_log, hk_call, hk_trace, hk_raised,
      hk_ops, hk_calls, hk_pc, hk_file_acts, hk_mem>>

plVars == <<pl_pc, pl_lang, pl_toolchain, pl_pattern_matches, pl_taint_flows, pl_calls, pl_conns, pl_agg>>

vars ==
    <<riskVars, thrVars, taintVars, sbVars, mainVars, lgVars,
      ccVars, monVars, fzVars, pmVars, cfgVars, hkVars,
      plVars>>

notRisk == <<thrVars, taintVars, sbVars, mainVars, lgVars, ccVars, monVars, fzVars, pmVars, cfgVars, hkVars, plVars>>
notThr == <<riskVars, taintVars, sbVars, mainVars, lgVars, ccVars, monVars, fzVars, pmVars, cfgVars, hkVars, plVars>>
notTaint == <<riskVars, thrVars, sbVars, mainVars, lgVars, ccVars, monVars, fzVars, pmVars, cfgVars, hkVars, plVars>>
notSb == <<riskVars, thrVars, taintVars, mainVars, lgVars, ccVars, monVars, fzVars, pmVars, cfgVars, hkVars, plVars>>
notMain == <<riskVars, thrVars, taintVars, sbVars, lgVars, ccVars, monVars, fzVars, pmVars, cfgVars, hkVars, plVars>>
notLg == <<riskVars, thrVars, taintVars, sbVars, mainVars, ccVars, monVars, fzVars, pmVars, cfgVars, hkVars, plVars>>
notCc == <<riskVars, thrVars, taintVars, sbVars, mainVars, lgVars, monVars, fzVars, pmVars, cfgVars, hkVars, plVars>>
notMon == <<riskVars, thrVars, taintVars, sbVars, mainVars, lgVars, ccVars, fzVars, pmVars, cfgVars, hkVars, plVars>>
notFz == <<riskVars, thrVars, taintVars, sbVars, mainVars, lgVars, ccVars, monVars, pmVars, cfgVars, hkVars, plVars>>
notPm == <<riskVars, thrVars, taintVars, sbVars, mainVars, lgVars, ccVars, monVars, fzVars, cfgVars, hkVars, plVars>>
notCfg == <<riskVars, thrVars, taintVars, sbVars, mainVars, lgVars, ccVars, monVars, fzVars, pmVars, hkVars, plVars>>
notHk == <<riskVars, thrVars, taintVars, sbVars, mainVars, lgVars, ccVars, monVars, fzVars, pmVars, cfgVars, plVars>>
notPl == <<riskVars, thrVars, taintVars, sbVars, mainVars, lgVars, ccVars, monVars, fzVars, pmVars, cfgVars, hkVars>>

NoResult == [none |-> TRUE]

(***************************************************************************)
(* Generic helpers on sequences and strings.                               *)
(***************************************************************************)
Range(s) == {s[i] : i \in 1..Len(s)}

Min(a, b) == IF a < b THEN a ELSE b

\* Python `sub in s` on strings
Contains(s, sub) ==
    \E i \in 1..(Len(s) - Len(sub) + 1) : SubSeq(s, i, i + Len(sub) - 1) = sub

\* Python s.startswith(p)
StartsWith(s, p) == Len(s) >= Len(p) /\ SubSeq(s, 1, Len(p)) = p

(***************************************************************************)
(* risk_assessor.py                                                        *)
(***************************************************************************)
SCORE_CRITICAL == 30
SCORE_HIGH == 15
SCORE_MEDIUM == 5
SCORE_LOW == 1
MAX_SCORE == 100

\* bound: the longest threat list assess_risk is given
MaxThreats == 7

Severities == {"critical", "high", "medium", "low"}

\* risk_assessor.py:31-38, the level thresholds
risk_level_of(risk_score) ==
    IF risk_score >= 80 THEN "critical"
    ELSE IF risk_score >= 50 THEN "high"
    ELSE IF risk_score >= 20 THEN "medium"
    ELSE "low"

\* a plausible slip: strict comparisons at the thresholds
calculate_risk_score_strict(critical_count, high_count, medium_count, low_count) ==
    LET raw == critical_count * SCORE_CRITICAL + high_count * SCORE_HIGH
               + medium_count * SCORE_MEDIUM + low_count * SCORE_LOW
        risk_score == Min(raw, MAX_SCORE)
    IN  [risk_score |-> risk_score,
         risk_level |-> IF risk_score > 80 THEN "critical"
                        ELSE IF risk_score > 50 THEN "high"
                        ELSE IF risk_score > 20 THEN "medium"
                        ELSE "low"]

\* a plausible slip: the sum is not clamped to MAX_SCORE
calculate_risk_score_unclamped(critical_count, high_count, medium_count, low_count) ==
    LET risk_score == critical_count * SCORE_CRITICAL + high_count * SCORE_HIGH
                      + medium_count * SCORE_MEDIUM + low_count * SCORE_LOW
    IN  [risk_score |-> risk_score, risk_level |-> risk_level_of(risk_score)]

\* risk_assessor.py:11-43
calculate_risk_score(critical_count, high_count, medium_count, low_count) ==
    LET raw == critical_count * SCORE_CRITICAL + high_count * SCORE_HIGH
               + medium_count * SCORE_MEDIUM + low_count * SCORE_LOW
        risk_score == Min(raw, MAX_SCORE)
    IN  [risk_score |-> risk_score, risk_level |-> risk_level_of(risk_score)]

\* risk_assessor.py:46-72
assess_risk_from_counts(breakdown) ==
    LET critical_count == breakdown.critical
        high_count == breakdown.high
        medium_count == breakdown.medium
        low_count == breakdown.low
        score_data == calculate_risk_score(critical_count, high_count,
                                           medium_count, low_count)
    IN  [risk_score |-> score_data.risk_score,
         risk_level |-> score_data.risk_level,
         threat_count |-> critical_count + high_count + medium_count + low_count,
         breakdown |-> [critical |-> critical_count, high |-> high_count,
                        medium |-> medium_count, low |-> low_count]]

\* risk_assessor.py:96-105, the counting loop over a list of severities;
\* acc is <<critical_count, high_count, medium_count, low_count>>
RECURSIVE count_by_severity(_, _)
count_by_severity(sevs, acc) ==
    IF sevs = <<>> THEN acc
    ELSE LET severity == sevs[1]
         IN  count_by_severity(Tail(sevs),
                 IF severity = "critical" THEN [acc EXCEPT ![1] = @ + 1]
                 ELSE IF severity = "high" THEN [acc EXCEPT ![2] = @ + 1]
                 ELSE IF severity = "medium" THEN [acc EXCEPT ![3] = @ + 1]
                 ELSE [acc EXCEPT ![4] = @ + 1])

\* risk_assessor.py:75-124; sevs is the list of the threats' severities
assess_risk(sevs) ==
    LET c == count_by_severity(sevs, <<0, 0, 0, 0>>)
        score_data == calculate_risk_score(c[1], c[2], c[3], c[4])
    IN  [risk_score |-> score_data.risk_score,
         risk_level |-> score_data.risk_level,
         threat_count |-> Len(sevs),
         breakdown |-> [critical |-> c[1], high |-> c[2],
                        medium |-> c[3], low |-> c[4]]]

\* the severity histogram of a threat list, as a caller builds it
Histogram(sevs) ==
    [critical |-> Cardinality({i \in 1..Len(sevs) : sevs[i] = "critical"}),
     high |-> Cardinality({i \in 1..Len(sevs) : sevs[i] = "high"}),
     medium |-> Cardinality({i \in 1..Len(sevs) : sevs[i] = "medium"}),
     low |-> Cardinality({i \in 1..Len(sevs) : sevs[i] = "low"})]

RiskIdle ==
    /\ risk_threats = <<>>
    /\ risk_result = NoResult
    /\ risk_counts_result = NoResult

\* the caller appends one more threat to the list it will assess
RiskAddThreat(sev) ==
    /\ Len(risk_threats) < MaxThreats
    /\ risk_threats' = Append(risk_threats, sev)
    /\ risk_result' = NoResult
    /\ risk_counts_result' = NoResult
    /\ UNCHANGED notRisk

\* main_controller.py:517 assess_risk(threats) and :672 assess_risk_from_counts
RiskAssess ==
    /\ risk_result = NoResult
    /\ risk_result' = assess_risk(risk_threats)
    /\ risk_counts_result' = assess_risk_from_counts(Histogram(risk_threats))
    /\ UNCHANGED <<risk_threats, notRisk>>

RiskNext ==
    \/ \E sev \in Severities : RiskAddThreat(sev)
    \/ RiskAssess

(***************************************************************************)
(* threat_identifier.py                                                    *)
(***************************************************************************)
\* bound: the number of evidence items in one aggregated bundle
MaxEvidence == 3

\* dict.get(key, default)
Get(rec, key, default) == IF key \in DOMAIN rec THEN rec[key] ELSE default

Ch(s, i) == SubSeq(s, i, i)

Digits == {"0", "1", "2", "3", "4", "5", "6", "7", "8", "9"}

DigitVal(c) ==
    CASE c = "0" -> 0 [] c = "1" -> 1 [] c = "2" -> 2 [] c = "3" -> 3
      [] c = "4" -> 4 [] c = "5" -> 5 [] c = "6" -> 6 [] c = "7" -> 7
      [] c = "8" -> 8 [] c = "9" -> 9

Letters == {"a", "b", "c", "d", "e", "f", "g", "h", "i", "j", "k", "l", "m",
            "n", "o", "p", "q", "r", "s", "t", "u", "v", "w", "x", "y", "z",
            "A", "B", "C", "D", "E", "F", "G", "H", "I", "J", "K", "L", "M",
            "N", "O", "P", "Q", "R", "S", "T", "U", "V", "W", "X", "Y", "Z"}

\* the end of the maximal run of digits of s that starts at i (i - 1 if none)
RECURSIVE DigitsEnd(_, _)
DigitsEnd(s, i) ==
    IF i <= Len(s) /\ Ch(s, i) \in Digits THEN DigitsEnd(s, i + 1) ELSE i - 1

\* int(...) of the digits s[i..j]
RECURSIVE IntOf(_, _, _)
IntOf(s, i, j) ==
    IF j < i THEN 0 ELSE IntOf(s, i, j - 1) * 10 + DigitVal(Ch(s, j))

SetMin(S) == CHOOSE x \in S : \A y \in S : x <= y

\* the first position >= i of s holding a colon (Len(s) + 1 if none)
NextColon(s, i) ==
    LET C == {k \in i..Len(s) : Ch(s, k) = ":"}
    IN  IF C = {} THEN Len(s) + 1 ELSE SetMin(C)

\* one attempt of r'([A-Za-z]:\\[^:]+|/[^:]+):(\d+)' at position p: the
\* position of the colon that ends group 1, or 0 when the pattern does not
\* match at p. [^:]+ is greedy and cannot give a character back, so the
\* colon is the first one after the prefix.
PathMatchColon(s, p) ==
    LET start == IF /\ p + 2 <= Len(s)
                    /\ Ch(s, p) \in Letters
                    /\ Ch(s, p + 1) = ":"
                    /\ Ch(s, p + 2) = "\\"
                 THEN p + 3
                 ELSE IF Ch(s, p) = "/" THEN p + 1 ELSE 0
        q == IF start = 0 THEN 0 ELSE NextColon(s, start)
    IN  IF start # 0 /\ q > start /\ q < Len(s) /\ Ch(s, q + 1) \in Digits
        THEN q ELSE 0

\* the leftmost position >= p where the pattern matches (0 if none)
NextPathMatch(s, p) ==
    LET M == {k \in p..Len(s) : PathMatchColon(s, k) # 0}
    IN  IF M = {} THEN 0 ELSE SetMin(M)

\* threat_identifier.py:64-68 (and 172-176, 184-188): re.finditer over a
\* log entry from position p on, the list of int(match.group(2))
RECURSIVE path_line_numbers(_, _)
path_line_numbers(s, p) ==
    LET k == NextPathMatch(s, p)
        q == PathMatchColon(s, k)
        e == DigitsEnd(s, q + 1)
    IN  IF k = 0 THEN <<>>
        ELSE <<IntOf(s, q + 1, e)>> \o path_line_numbers(s, e + 1)

\* sorted(set(...)) of a set of integers
RECURSIVE SortedSeq(_)
SortedSeq(S) ==
    IF S = {} THEN <<>>
    ELSE <<SetMin(S)>> \o SortedSeq(S \ {SetMin(S)})

\* sorted(set([l for l in lines if l > 0]))
line_list(line_seq) == SortedSeq({l \in Range(line_seq) : l > 0})

\* the concatenation of a sequence of sequences
RECURSIVE Flatten(_)
Flatten(ss) == IF ss = <<>> THEN <<>> ELSE ss[1] \o Flatten(Tail(ss))

MapLine(items, key) == [i \in 1..Len(items) |-> Get(items[i], key, 0)]

\* threat_identifier.py:38-77
rce_threat(pattern_matches, flows, syscalls) ==
    LET from_patterns == SelectSeq(pattern_matches, LAMBDA m :
            \/ Contains(Get(m, "rule_id", ""), "rce_")
            \/ Contains(Get(m, "matched_text", ""), "os.system"))
        from_flows == SelectSeq(flows, LAMBDA f :
            \/ StartsWith(Get(f, "sink", ""), "os.system")
            \/ Contains(Get(f, "sink", ""), "subprocess"))
        from_syscalls == SelectSeq(syscalls, LAMBDA sc :
            Contains(sc.text, "os.system") \/ Contains(sc.text, "subprocess"))
        rce_evidence ==
            from_patterns \o from_flows
            \o [i \in 1..Len(from_syscalls) |->
                   IF from_syscalls[i].is_dict THEN from_syscalls[i]
                   ELSE [log_entry |-> from_syscalls[i].text]]
        rce_lines ==
            MapLine(from_patterns, "line") \o MapLine(from_flows, "sink_line")
            \o Flatten([i \in 1..Len(from_syscalls) |->
                   IF from_syscalls[i].is_dict THEN <<>>
                   ELSE path_line_numbers(from_syscalls[i].text, 1)])
    IN  IF rce_evidence # <<>>
        THEN <<[threat_type |-> "RCE", severity |-> "critical",
                evidence |-> rce_evidence,
                line_numbers |-> line_list(rce_lines)]>>
        ELSE <<>>

\* threat_identifier.py:79-95
command_injection_threat(flows) ==
    LET cmd_injection_evidence == SelectSeq(flows, LAMBDA f :
            /\ StartsWith(Get(f, "source", ""), "sys.argv")
            /\ StartsWith(Get(f, "sink", ""), "os.system"))
    IN  IF cmd_injection_evidence # <<>>
        THEN <<[threat_type |-> "Command Injection", severity |-> "critical",
                evidence |-> cmd_injection_evidence,
                line_numbers |->
                    line_list(MapLine(cmd_injection_evidence, "sink_line"))]>>
        ELSE <<>>

\* pattern_threat without its `if evidence:` guard
pattern_threat_unguarded(pattern_matches, marker, threat_type, severity) ==
    LET evidence == SelectSeq(pattern_matches, LAMBDA m :
            Contains(Get(m, "rule_id", ""), marker))
    IN  <<[threat_type |-> threat_type, severity |-> severity,
           evidence |-> evidence,
           line_numbers |-> line_list(MapLine(evidence, "line"))]>>

\* threat_identifier.py:97-152 and 199-216: WebShell, Backdoor, SQL Injection
\* and File Operation Risk are the same block with another rule_id marker
pattern_threat(pattern_matches, marker, threat_type, severity) ==
    LET evidence == SelectSeq(pattern_matches, LAMBDA m :
            Contains(Get(m, "rule_id", ""), marker))
    IN  IF evidence # <<>>
        THEN <<[threat_type |-> threat_type, severity |-> severity,
                evidence |-> evidence,
                line_numbers |-> line_list(MapLine(evidence, "line"))]>>
        ELSE <<>>

\* threat_identifier.py:154-197
network_threat(pattern_matches, network_activities, syscalls) ==
    LET from_patterns == SelectSeq(pattern_matches, LAMBDA m :
            Contains(Get(m, "rule_id", ""), "network_"))
        from_syscalls ==
            IF network_activities = <<>>
            THEN SelectSeq(syscalls, LAMBDA sc :
                     ~sc.is_dict /\ Contains(sc.text, "[ALERT] NETWORK:"))
            ELSE <<>>
        network_evidence ==
            from_patterns \o network_activities
            \o [i \in 1..Len(from_syscalls) |-> [line |-> from_syscalls[i].text]]
        network_lines ==
            MapLine(from_patterns, "line")
            \o Flatten([i \in 1..Len(network_activities) |->
                   IF "line" \in DOMAIN network_activities[i]
                   THEN path_line_numbers(network_activities[i].line, 1)
                   ELSE <<>>])
            \o Flatten([i \in 1..Len(from_syscalls) |->
                   path_line_numbers(from_syscalls[i].text, 1)])
    IN  IF network_evidence # <<>>
        THEN <<[threat_type |-> "Network Exfiltration", severity |-> "medium",
                evidence |-> network_evidence,
                line_numbers |-> line_list(network_lines)]>>
        ELSE <<>>

\* threat_identifier.py:218-230
sensitive_file_threat(file_activities) ==
    LET sensitive_file_evidence ==
            SelectSeq(file_activities, LAMBDA op : Get(op, "is_sensitive", FALSE))
    IN  IF sensitive_file_evidence # <<>>
        THEN <<[threat_type |-> "Sensitive File Access", severity |-> "high",
                evidence |-> sensitive_file_evidence,
                line_numbers |-> line_list(Flatten(
                    [i \in 1..Len(sensitive_file_evidence) |->
                        Get(sensitive_file_evidence[i], "line_numbers", <<>>)]))]>>
        ELSE <<>>

\* threat_identifier.py:232-248
runtime_threat(fuzz_results) ==
    LET crash_evidence == SelectSeq(fuzz_results, LAMBDA r :
            Get(r, "crashed", FALSE) /\ ~Get(r, "timed_out", FALSE))
    IN  IF crash_evidence # <<>>
        THEN <<[threat_type |-> "Runtime Vulnerability", severity |-> "medium",
                evidence |-> crash_evidence,
                line_numbers |-> line_list(Flatten(
                    [i \in 1..Len(crash_evidence) |->
                        Get(crash_evidence[i], "line_numbers", <<>>)]))]>>
        ELSE <<>>

\* threat_identifier.py:250-262
memory_threat(memory_findings) ==
    LET memory_api == \E i \in 1..Len(memory_findings) :
            Get(memory_findings[i], "type", "") = "memory_api"
    IN  IF memory_findings # <<>>
        THEN <<[threat_type |-> "Memory Injection",
                severity |-> IF memory_api THEN "high" ELSE "medium",
                evidence |-> memory_findings,
                line_numbers |-> line_list(Flatten(
                    [i \in 1..Len(memory_findings) |->
                        Get(memory_findings[i], "line_numbers", <<>>)]))]>>
        ELSE <<>>

\* threat_identifier.py:11-264
identify_threats(agg) ==
    rce_threat(agg.pattern_matches, agg.taint_flows, agg.syscalls)
    \o command_injection_threat(agg.taint_flows)
    \o pattern_threat(agg.pattern_matches, "webshell_", "WebShell", "critical")
    \o pattern_threat(agg.pattern_matches, "backdoor_", "Backdoor", "high")
    \o pattern_threat(agg.pattern_matches, "sql_injection", "SQL Injection", "high")
    \o network_threat(agg.pattern_matches, agg.network_activities, agg.syscalls)
    \o pattern_threat(agg.pattern_matches, "file_", "File Operation Risk", "medium")
    \o sensitive_file_threat(agg.file_activities)
    \o runtime_threat(agg.fuzz_results)
    \o memory_threat(agg.memory_findings)

\* pattern_matcher.py:60-75, the records match_patterns returns; the last one
\* is a Go taint flow that main_controller.py:345 appends to pattern_matches
PatternPool ==
    {[rule_id |-> "rce_os_system", severity |-> "critical", line |-> 4,
      matched_text |-> "os.system("],
     [rule_id |-> "webshell_eval", severity |-> "critical", line |-> 2,
      matched_text |-> "eval("],
     [rule_id |-> "backdoor_password", severity |-> "high", line |-> 1,
      matched_text |-> "password ="],
     [rule_id |-> "sql_injection_concat", severity |-> "high", line |-> 4,
      matched_text |-> "execute("],
     [rule_id |-> "network_socket", severity |-> "medium", line |-> 2,
      matched_text |-> "socket.socket("],
     [rule_id |-> "file_write", severity |-> "low", line |-> 1,
      matched_text |-> "open("],
     [rule_id |-> "obfuscation_base64", severity |-> "medium", line |-> 2,
      matched_text |-> "b64decode("],
     [rule_id |-> "dangerous_call", severity |-> "high", line |-> 1,
      matched_text |-> "os.system(cmd)"],
     [rule_id |-> "go_rce_exec_command", severity |-> "critical", line |-> 2,
      matched_text |-> "exec.Command(", source_line |-> 1, sink_line |-> 2],
     [rule_id |-> "deserialize_pickle", severity |-> "HIGH", line |-> 3,
      matched_text |-> "pickle.loads("]}

\* taint_analysis.py:116-135, the records the Python analyzer emits
FlowPool ==
    {[source |-> "sys.argv[...]", sink |-> "os.system", source_line |-> 4,
      sink_line |-> 4, severity |-> "critical", type |-> "direct"],
     [source |-> "cmd", sink |-> "os.system", source_line |-> 1,
      sink_line |-> 3, severity |-> "critical", type |-> "variable_flow"],
     [source |-> "data", sink |-> "eval", source_line |-> 2,
      sink_line |-> 3, severity |-> "critical", type |-> "variable_flow"],
     [source |-> "input(...)", sink |-> "subprocess.run", source_line |-> 2,
      sink_line |-> 2, severity |-> "critical", type |-> "direct"]}

\* syscall_monitor.py:110-113, 141-144, 164-168, 214-219: log entries as
\* main_controller.py:450-455 keeps them; the last is a go_dynamic_runner
\* log_event entry (go_dynamic_runner.py:127-129, 280)
LogSystem ==
    "[2024-01-01 10:00:01.500] [ALERT] SYSCALL: os.system called with command='ls' | stack=/s/sandbox.py:133 -> /t/a.py:3 -> /s/syscall_monitor.py:143"

LogConnect ==
    "[2024-01-01 10:00:02.250] [ALERT] NETWORK: socket.connect called with address='8.8.8.8:53' | stack=/t/a.py:5 -> /s/syscall_monitor.py:166"

LogSubprocessUrl ==
    "[2024-01-01 10:00:03.000] [ALERT] SYSCALL: subprocess.run called with args=(['curl', 'http://h:80/x'],), kwargs= | stack=/t/a.py:6 -> /s/syscall_monitor.py:214"

LogGoConnect == "[2024-01-01T10:00:04] socket_connect: main target=8.8.8.8:53"

\* go_dynamic_runner.py:298 the entry every completed run logs
LogGoExit == "[2024-01-01 10:00:05] process_exit: return_code=0 timed_out=False"

SyscallPool ==
    {[is_dict |-> FALSE, text |-> LogSystem],
     [is_dict |-> FALSE, text |-> LogConnect],
     [is_dict |-> FALSE, text |-> LogSubprocessUrl],
     [is_dict |-> FALSE, text |-> LogGoConnect],
     [is_dict |-> FALSE, text |-> LogGoExit]}

\* network_monitor.py:72-78 and go_dynamic_runner.py:272-279
NetworkPool ==
    {[type |-> "connect", target |-> "8.8.8.8:53", line |-> LogConnect],
     [type |-> "connect", target |-> "8.8.8.8:53",
      line |-> "NETWORK connect 8.8.8.8:53"]}

\* file_monitor.py:134-140
FilePool ==
    {[operation |-> "read", file_path |-> "/etc/passwd", is_sensitive |-> TRUE,
      line_numbers |-> <<>>],
     [operation |-> "write", file_path |-> "out.txt", is_sensitive |-> FALSE,
      line_numbers |-> <<>>]}

\* fuzzer.py:153-178
FuzzPool ==
    {[crashed |-> TRUE, timed_out |-> FALSE, return_code |-> 0 - 1,
      line_numbers |-> <<>>],
     [crashed |-> TRUE, timed_out |-> TRUE, return_code |-> 0 - 1,
      line_numbers |-> <<>>],
     [crashed |-> FALSE, timed_out |-> FALSE, return_code |-> 0,
      line_numbers |-> <<>>]}

\* memory_analyzer.py:53-57, and the memory_usage finding a sampled Go or
\* Java run appends (go_dynamic_runner.py:300-305)
MemoryPool ==
    {[type |-> "memory_api", line_numbers |-> <<>>],
     [type |-> "code_exec", line_numbers |-> <<>>],
     [type |-> "memory_usage", line_numbers |-> <<>>]}

BundleFields == {"pattern_matches", "taint_flows", "syscalls",
                 "network_activities", "file_activities", "fuzz_results",
                 "memory_findings"}

ItemPool(field) ==
    CASE field = "pattern_matches" -> PatternPool
      [] field = "taint_flows" -> FlowPool
      [] field = "syscalls" -> SyscallPool
      [] field = "network_activities" -> NetworkPool
      [] field = "file_activities" -> FilePool
      [] field = "fuzz_results" -> FuzzPool
      [] field = "memory_findings" -> MemoryPool

EmptyBundle == [f \in BundleFields |-> <<>>]

BundleSize(agg) ==
    Len(agg.pattern_matches) + Len(agg.taint_flows) + Len(agg.syscalls)
    + Len(agg.network_activities) + Len(agg.file_activities)
    + Len(agg.fuzz_results) + Len(agg.memory_findings)

\* str.lower() on the severities that occur
Lower(text) ==
    CASE text = "HIGH" -> "high"
      [] text = "CRITICAL" -> "critical"
      [] text = "MEDIUM" -> "medium"
      [] text = "LOW" -> "low"
      [] text = "READ" -> "read"
      [] text = "WRITE" -> "write"
      [] text = "DELETE" -> "delete"
      [] OTHER -> text

\* aggregator.py:68-77: the severities the pattern-match loop counts
pattern_severities(pattern_matches) ==
    [i \in 1..Len(pattern_matches) |->
        Lower(Get(pattern_matches[i], "severity", "medium"))]

\* aggregator.py:83-87: the syscall loop; acc is <<critical_count, medium_count>>
RECURSIVE syscall_counts(_, _)
syscall_counts(syscalls, acc) ==
    IF syscalls = <<>> THEN acc
    ELSE LET text == syscalls[1].text
         IN  syscall_counts(Tail(syscalls),
                 IF Contains(text, "os.system") \/ Contains(text, "subprocess")
                 THEN [acc EXCEPT ![1] = @ + 1]
                 ELSE IF Contains(text, "socket")
                 THEN [acc EXCEPT ![2] = @ + 1]
                 ELSE acc)

\* aggregator.py:93-97: the file-activity loop; acc is <<high_count, low_count>>
RECURSIVE file_counts(_, _)
file_counts(file_activities, acc) ==
    IF file_activities = <<>> THEN acc
    ELSE file_counts(Tail(file_activities),
             IF Get(file_activities[1], "is_sensitive", FALSE)
             THEN [acc EXCEPT ![1] = @ + 1]
             ELSE [acc EXCEPT ![2] = @ + 1])

\* memory_high counting every finding
memory_high_all(memory_findings) == Len(memory_findings)

\* aggregator.py:100: memory_high
memory_high(memory_findings) ==
    Len(SelectSeq(memory_findings, LAMBDA f : Get(f, "type", "") = "memory_api"))

\* aggregator.py:106-108: the fuzz loop
fuzz_medium(fuzz_results) ==
    Len(SelectSeq(fuzz_results, LAMBDA r : Get(r, "crashed", FALSE)))

\* aggregator.py:11-136: aggregate_results on the lists of static_results and
\* dynamic_results
aggregate_results(lists) ==
    LET p == count_by_severity(pattern_severities(lists.pattern_matches),
                               <<0, 0, 0, 0>>)
        sc == syscall_counts(lists.syscalls, <<0, 0>>)
        fc == file_counts(lists.file_activities, <<0, 0>>)
        mh == memory_high(lists.memory_findings)
        critical_count == p[1] + Len(lists.taint_flows) + sc[1]
        high_count == p[2] + fc[1] + mh
        medium_count == p[3] + sc[2] + Len(lists.network_activities)
                        + (Len(lists.memory_findings) - mh)
                        + fuzz_medium(lists.fuzz_results)
        low_count == p[4] + fc[2]
    IN  [static |-> [pattern_matches |-> lists.pattern_matches,
                     taint_flows |-> lists.taint_flows],
         dynamic |-> [syscalls |-> lists.syscalls,
                      network_activities |-> lists.network_activities,
                      fuzz_results |-> lists.fuzz_results,
                      file_activities |-> lists.file_activities,
                      memory_findings |-> lists.memory_findings],
         summary |-> [total_threats |-> critical_count + high_count
                                        + medium_count + low_count,
                      critical_count |-> critical_count,
                      high_count |-> high_count,
                      medium_count |-> medium_count,
                      low_count |-> low_count]]

\* threat_identifier.py:27-36: the lists identify_threats reads back
lists_of(aggregated_results) ==
    [pattern_matches |-> aggregated_results.static.pattern_matches,
     taint_flows |-> aggregated_results.static.taint_flows,
     syscalls |-> aggregated_results.dynamic.syscalls,
     network_activities |-> aggregated_results.dynamic.network_activities,
     file_activities |-> aggregated_results.dynamic.file_activities,
     fuzz_results |-> aggregated_results.dynamic.fuzz_results,
     memory_findings |-> aggregated_results.dynamic.memory_findings]

\* the severities of a list of Threat records
threat_severities(ts) == [i \in 1..Len(ts) |-> Lower(Get(ts[i], "severity", "medium"))]

ThrIdle ==
    /\ aggregated = EmptyBundle
    /\ threats = <<>>
    /\ thr_pc = "build"
    /\ agg_result = NoResult
    /\ thr_risk = NoResult

\* aggregator.py:112-128: one more finding reaches the aggregated bundle
AddEvidence(field, item) ==
    /\ thr_pc = "build"
    /\ BundleSize(aggregated) < MaxEvidence
    /\ aggregated' = [aggregated EXCEPT ![field] = Append(@, item)]
    /\ UNCHANGED <<threats, thr_pc, agg_result, thr_risk, notThr>>

\* main_controller.py:504-518: aggregated = aggregate_results(...);
\* threats = identify_threats(aggregated); risk_assessment = assess_risk(threats)
IdentifyThreats ==
    /\ thr_pc = "build"
    /\ agg_result' = aggregate_results(aggregated)
    /\ threats' = identify_threats(lists_of(agg_result'))
    /\ thr_risk' = assess_risk(threat_severities(threats'))
    /\ thr_pc' = "done"
    /\ UNCHANGED <<aggregated, notThr>>

ThrNext ==
    \/ \E field \in BundleFields : \E item \in ItemPool(field) :
           AddEvidence(field, item)
    \/ IdentifyThreats


(***************************************************************************)
(* engines/static/taint_analysis.py, go_taint_analysis.py,                 *)
(* java_taint_analysis.py                                                  *)
(*                                                                         *)
(* A Go/Java line is kept as what the analyzer's regular expressions see   *)
(* of it: whether a source pattern matches, which sink patterns match, the *)
(* names _extract_assigned_vars returns, and the names the text right of   *)
(* the assignment (the whole line, when there is none) mentions.  A Python *)
(* statement is an assignment `target = value` or an expression statement  *)
(* `callee(args)`.                                                         *)
(***************************************************************************)
MaxLines == 3

Vars == {"v", "w"}

Langs == {"python", "go", "java"}

\* go_taint_analysis.py:111-147: (rule_id, severity) in the order of sink_rules
go_sink_rules ==
    << [rule_id |-> "go_rce_exec_command", severity |-> "critical"],
       [rule_id |-> "go_rce_exec_command", severity |-> "critical"],
       [rule_id |-> "go_rce_exec_command", severity |-> "critical"],
       [rule_id |-> "go_os_exec", severity |-> "critical"],
       [rule_id |-> "go_sql_injection", severity |-> "high"],
       [rule_id |-> "go_file_write", severity |-> "medium"],
       [rule_id |-> "go_network_dial", severity |-> "medium"] >>

\* java_taint_analysis.py:106-137
java_sink_rules ==
    << [rule_id |-> "java_rce_runtime_exec", severity |-> "critical"],
       [rule_id |-> "java_rce_processbuilder", severity |-> "critical"],
       [rule_id |-> "java_sql_injection", severity |-> "high"],
       [rule_id |-> "java_file_operation", severity |-> "medium"],
       [rule_id |-> "java_network_connection", severity |-> "medium"],
       [rule_id |-> "java_deserialization", severity |-> "high"] >>

sink_rules(lang) == IF lang = "go" THEN go_sink_rules ELSE java_sink_rules

\* the sink patterns the modelled lines may contain (indices into sink_rules)
LineSinks == {2, 5}

\* the lines of a Go/Java file
LinePool ==
    [ src : BOOLEAN,
      sinks : SUBSET LineSinks,
      lhs : {<<>>, <<"v">>, <<"w">>, <<"v", "w">>},
      uses : SUBSET Vars ]

\* _line_contains_var(line, var_name) on the whole line
line_contains_var(line, var) == var \in Range(line.lhs) \cup line.uses

\* `for pattern, info in sink_rules: if re.search(pattern, line): ... break`:
\* the index of the first rule whose pattern matches, 0 for none
matched_sink(line) == IF line.sinks = {} THEN 0 ELSE SetMin(line.sinks)

\* position of var among the keys of the dict, 0 if absent
KeyIndex(tv, var) ==
    IF \E k \in 1..Len(tv) : tv[k].var = var
    THEN CHOOSE k \in 1..Len(tv) : tv[k].var = var
    ELSE 0

\* tainted_vars[var_name] = origin: an existing key keeps its position
DictSet(tv, var, origin) ==
    IF KeyIndex(tv, var) = 0
    THEN Append(tv, [var |-> var, source_line |-> origin])
    ELSE [tv EXCEPT ![KeyIndex(tv, var)].source_line = origin]

RECURSIVE DictSetAll(_, _, _)
DictSetAll(tv, names, origin) ==
    IF names = <<>> THEN tv
    ELSE DictSetAll(DictSet(tv, Head(names), origin), Tail(names), origin)

\* _find_taint_origin(rhs, tainted_vars): the origin of the first key that the
\* right-hand side mentions, 0 for None
find_taint_origin(line, tv) ==
    LET hits == {k \in 1..Len(tv) : tv[k].var \in line.uses}
    IN  IF line.lhs = <<>> \/ hits = {} THEN 0 ELSE tv[SetMin(hits)].source_line

\* go_taint_analysis.py:162-172: the taint update of one line
update_tainted(line, i, tv) ==
    IF line.src /\ line.lhs # <<>> THEN DictSetAll(tv, line.lhs, i)
    ELSE IF line.lhs # <<>> /\ find_taint_origin(line, tv) > 0
         THEN DictSetAll(tv, line.lhs, find_taint_origin(line, tv))
         ELSE tv

\* go_taint_analysis.py:186-201: the direct flow of line i (the flow dict has no
\* field naming its kind; `type` and `tainted_var` record the emitting branch)
direct_flow(i, rule) ==
    [source_line |-> i, sink_line |-> i, severity |-> rule.severity,
     sink |-> rule.rule_id, type |-> "direct", tainted_var |-> ""]

variable_flow(origin, i, rule, var) ==
    [source_line |-> origin, sink_line |-> i, severity |-> rule.severity,
     sink |-> rule.rule_id, type |-> "variable_flow", tainted_var |-> var]

\* go_taint_analysis.py:204-226: the loop over tainted_vars.items(), from
\* position k on; st = [flows, seen]
RECURSIVE variable_flows(_, _, _, _, _, _)
variable_flows(line, i, rule, tv, k, st) ==
    IF k > Len(tv) THEN st
    ELSE LET key == <<tv[k].source_line, i, tv[k].var, rule.rule_id>>
         IN  IF ~line_contains_var(line, tv[k].var) \/ key \in st.seen
             THEN variable_flows(line, i, rule, tv, k + 1, st)
             ELSE variable_flows(line, i, rule, tv, k + 1,
                      [flows |-> Append(st.flows,
                                   variable_flow(tv[k].source_line, i, rule, tv[k].var)),
                       seen |-> st.seen \cup {key}])

\* go_taint_analysis.py:174-226: the sink part of one line
sink_step(lang, line, i, tv, st) ==
    IF matched_sink(line) = 0 THEN st
    ELSE LET rule == sink_rules(lang)[matched_sink(line)]
             dkey == <<i, i, "direct", rule.rule_id>>
             st1 == IF line.src /\ dkey \notin st.seen
                    THEN [flows |-> Append(st.flows, direct_flow(i, rule)),
                          seen |-> st.seen \cup {dkey}]
                    ELSE st
         IN  variable_flows(line, i, rule, tv, 1, st1)

\* ---- Python
\* expressions: sys.argv[1], a name, "echo " + name, "echo " + sys.argv[1], a
\* constant
ExprPool ==
    {[k |-> "src", id |-> ""], [k |-> "concat_src", id |-> ""],
     [k |-> "const", id |-> ""]}
    \cup [k : {"name", "concat"}, id : Vars]

Callees == {"os.system", "print"}

ArgLists == {<<e>> : e \in ExprPool} \cup {<<a, b>> : a, b \in ExprPool}

StmtPool ==
    [kind : {"assign"}, target : Vars, value : ExprPool,
     callee : {""}, args : {<<>>}]
    \cup [kind : {"call"}, target : {""}, value : {[k |-> "const", id |-> ""]},
          callee : Callees, args : ArgLists]

\* TaintAnalyzer._is_taint_source
is_taint_source(e) == e.k = "src"

\* TaintAnalyzer._is_taint_sink, "" for None
is_taint_sink(callee) == IF callee \in {"os.system"} THEN callee ELSE ""

\* TaintAnalyzer._get_variable_name, "" for None
get_variable_name(e) == IF e.k = "name" THEN e.id ELSE ""

\* TaintAnalyzer._get_node_repr (139-163); ast.dump(node) is not spelled out
get_node_repr(e) ==
    CASE e.k = "name" -> e.id
      [] e.k = "src" -> "sys.argv[...]"
      [] e.k = "concat" -> "'echo ' + " \o e.id
      [] e.k = "concat_src" -> "'echo ' + sys.argv[...]"
      [] e.k = "const" -> "'x'"

\* taint_analysis.py:110-135: the loop over node.args, from position k on
RECURSIVE visit_args(_, _, _, _, _, _, _)
visit_args(args, k, sink_name, lineno, ctv, va, flows) ==
    IF k > Len(args) THEN flows
    ELSE LET arg == args[k]
             var_name == get_variable_name(arg)
         IN  IF is_taint_source(arg)
             THEN visit_args(args, k + 1, sink_name, lineno, ctv, va,
                      Append(flows,
                          [source |-> get_node_repr(arg),
                           source_line |-> lineno, sink_line |-> lineno,
                           severity |-> "critical", sink |-> sink_name,
                           type |-> "direct", tainted_var |-> ""]))
             ELSE IF var_name # "" /\ var_name \in ctv
             THEN visit_args(args, k + 1, sink_name, lineno, ctv, va,
                      Append(flows,
                          [source |-> get_node_repr(arg),
                           source_line |-> va[var_name], sink_line |-> lineno,
                           severity |-> "critical", sink |-> sink_name,
                           type |-> "variable_flow", tainted_var |-> var_name]))
             ELSE visit_args(args, k + 1, sink_name, lineno, ctv, va, flows)

\* what the text of an expression mentions
ExprMentions(e, var) == e.k \in {"name", "concat"} /\ e.id = var

ExprHasSource(e) == e.k \in {"src", "concat_src"}

NoLine == [src |-> FALSE, sinks |-> {}, lhs |-> <<>>, uses |-> {}]

TaintFresh(lang) ==
    /\ t_lang = lang
    /\ t_lineno = 0
    /\ t_cur = NoLine
    /\ tainted_vars = <<>>
    /\ seen_flows = {}
    /\ current_tainted_vars = {}
    /\ var_assignments = [x \in Vars |-> 0]
    /\ taint_flows = <<>>
    /\ src_assign = [x \in Vars |-> 0]
    /\ t_threats = NoResult

TaintIdle == TaintFresh("none")

\* go_taint_analysis.py:154-226 / java_taint_analysis.py:144-216: one round of
\* `for i, raw_line in enumerate(lines, 1)`
AnalyzeLine(line) ==
    /\ t_lang \in {"go", "java"}
    /\ t_lineno < MaxLines
    /\ LET i == t_lineno + 1
           tv == update_tainted(line, i, tainted_vars)
           st == sink_step(t_lang, line, i, tv,
                           [flows |-> taint_flows, seen |-> seen_flows])
       IN  /\ t_lineno' = i
           /\ t_cur' = line
           /\ tainted_vars' = tv
           /\ taint_flows' = st.flows
           /\ seen_flows' = st.seen
           /\ src_assign' = [x \in Vars |->
                               IF x \in Range(line.lhs)
                               THEN (IF line.src THEN i ELSE 0)
                               ELSE src_assign[x]]
    /\ UNCHANGED <<t_lang, current_tainted_vars, var_assignments, t_threats,
                   notTaint>>

\* taint_analysis.py:68-95: TaintAnalyzer.visit_Assign on `target = value`
VisitAssign(stmt) ==
    /\ t_lang = "python"
    /\ t_threats = NoResult
    /\ t_lineno < MaxLines
    /\ stmt.kind = "assign"
    /\ LET lineno == t_lineno + 1
           is_tainted ==
               \/ is_taint_source(stmt.value)
               \/ /\ get_variable_name(stmt.value) # ""
                  /\ get_variable_name(stmt.value) \in current_tainted_vars
       IN  /\ t_lineno' = lineno
           /\ t_cur' = stmt
           /\ current_tainted_vars' =
                  IF is_tainted THEN current_tainted_vars \cup {stmt.target}
                  ELSE current_tainted_vars
           /\ var_assignments' =
                  IF is_tainted THEN [var_assignments EXCEPT ![stmt.target] = lineno]
                  ELSE var_assignments
           /\ src_assign' = [src_assign EXCEPT ![stmt.target] =
                                IF is_taint_source(stmt.value) THEN lineno ELSE 0]
    /\ UNCHANGED <<t_lang, tainted_vars, seen_flows, taint_flows, t_threats,
                   notTaint>>

\* taint_analysis.py:97-137: TaintAnalyzer.visit_Call on `callee(args)`
VisitCall(stmt) ==
    /\ t_lang = "python"
    /\ t_threats = NoResult
    /\ t_lineno < MaxLines
    /\ stmt.kind = "call"
    /\ LET lineno == t_lineno + 1
           sink_name == is_taint_sink(stmt.callee)
       IN  /\ t_lineno' = lineno
           /\ t_cur' = stmt
           /\ taint_flows' =
                  IF sink_name # ""
                  THEN visit_args(stmt.args, 1, sink_name, lineno,
                                  current_tainted_vars, var_assignments, taint_flows)
                  ELSE taint_flows
    /\ UNCHANGED <<t_lang, tainted_vars, seen_flows, current_tainted_vars,
                   var_assignments, src_assign, t_threats, notTaint>>

\* main_controller.py:504-513 on the flows of a Python file: aggregated =
\* aggregate_results(..., taint_flows, ...); threats = identify_threats(aggregated)
TaintThreats ==
    /\ t_lang = "python"
    /\ t_threats = NoResult
    /\ t_lineno > 0
    /\ t_threats' = [threats |-> identify_threats(lists_of(aggregate_results(
                         [EmptyBundle EXCEPT !.taint_flows = taint_flows])))]
    /\ UNCHANGED <<t_lang, t_lineno, t_cur, tainted_vars, seen_flows,
                   current_tainted_vars, var_assignments, taint_flows,
                   src_assign, notTaint>>

TaintNext ==
    \/ \E line \in LinePool : AnalyzeLine(line)
    \/ \E stmt \in StmtPool : VisitAssign(stmt)
    \/ \E stmt \in StmtPool : VisitCall(stmt)
    \/ TaintThreats


(***************************************************************************)
(* engines/dynamic/sandbox.py: run_in_sandbox and its worker.              *)
(*                                                                         *)
(* The caller and the worker are two processes.  The target's code is a    *)
(* run of steps the worker takes while it is in "exec": writes to stdout   *)
(* or stderr, hooked calls (one log entry each), signal.signal(SIGTERM,    *)
(* SIG_IGN), and the end of the code, by returning or by raising.  The     *)
(* timeout may strike whenever the worker is still alive.                  *)
(***************************************************************************)
MaxEvents == 2

LogModes == {"queue", "file"}

\* how the target's code may end
EndKinds == {"return", "Exception", "SystemExit(0)", "SystemExit(3)",
             "SystemExit(str)", "BaseException"}

TimeoutMessage == "Execution timed out after N seconds"

InfoHeader == "[INFO] Sandbox execution started"

\* how much the target has written so far
Produced ==
    Len(sb_stdout) + Len(sb_stderr)
    + Len(SelectSeq(sb_log, LAMBDA e : e # InfoHeader))

IsPrefix(s, t) == Len(s) <= Len(t) /\ SubSeq(t, 1, Len(s)) = s

SbIdle ==
    /\ sb_mode = "none"
    /\ sb_pc = "idle"
    /\ sb_worker = "none"
    /\ sb_ignore_term = FALSE
    /\ sb_raised = ""
    /\ sb_exitcode = 0
    /\ sb_stdout = <<>>
    /\ sb_stderr = <<>>
    /\ sb_log = <<>>
    /\ sb_result_queue = <<>>
    /\ sb_timed_out = FALSE
    /\ sb_proc = NoResult
    /\ sb_result = NoResult
    /\ sb_at_timeout = NoResult

\* sandbox.py:183-191 (queue mode: worker.start(); worker.join(timeout)) and
\* 230-251 (file mode: the log file header is written, subprocess.run starts)
SbStart(mode) ==
    /\ sb_pc = "idle"
    /\ sb_mode' = mode
    /\ sb_pc' = "join"
    /\ sb_worker' = "exec"
    /\ sb_log' = IF mode = "file" THEN <<InfoHeader>> ELSE <<>>
    /\ UNCHANGED <<sb_ignore_term, sb_raised, sb_exitcode, sb_stdout, sb_stderr,
                   sb_result_queue, sb_timed_out, sb_proc, sb_result,
                   sb_at_timeout, notSb>>

\* the target writes to sys.stdout, redirected at sandbox.py:132
TargetPrint ==
    /\ sb_worker = "exec"
    /\ Produced < MaxEvents
    /\ sb_stdout' = Append(sb_stdout, "out")
    /\ UNCHANGED <<sb_worker, sb_ignore_term, sb_raised, sb_exitcode, sb_stderr,
                   sb_log, sb_result_queue, sbParentVars, notSb>>

\* the target writes to sys.stderr, redirected at sandbox.py:132
TargetPrintErr ==
    /\ sb_worker = "exec"
    /\ Produced < MaxEvents
    /\ sb_stderr' = Append(sb_stderr, "err")
    /\ UNCHANGED <<sb_worker, sb_ignore_term, sb_raised, sb_exitcode, sb_stdout,
                   sb_log, sb_result_queue, sbParentVars, notSb>>

\* the target calls a hooked function: syscall_monitor.py:110-129 _log puts
\* the entry on log_queue or appends it to the log file
TargetHookedCall ==
    /\ sb_worker = "exec"
    /\ Produced < MaxEvents
    /\ sb_log' = Append(sb_log, "[ALERT] SYSCALL: os.system called")
    /\ UNCHANGED <<sb_worker, sb_ignore_term, sb_raised, sb_exitcode, sb_stdout,
                   sb_stderr, sb_result_queue, sbParentVars, notSb>>

\* the target runs signal.signal(signal.SIGTERM, signal.SIG_IGN)
TargetIgnoreSigterm ==
    /\ sb_worker = "exec"
    /\ ~sb_ignore_term
    /\ sb_ignore_term' = TRUE
    /\ UNCHANGED <<sb_worker, sb_raised, sb_exitcode, sb_stdout, sb_stderr,
                   sb_log, sb_result_queue, sbParentVars, notSb>>

\* sandbox.py:134-142: the return code _execute_with_hooks computes; a
\* BaseException other than SystemExit is not caught there
queue_return_code(kind) ==
    CASE kind = "return" -> 0
      [] kind = "SystemExit(0)" -> 0
      [] kind = "SystemExit(3)" -> 3
      [] kind = "SystemExit(str)" -> 0
      [] kind = "Exception" -> 0 - 1

\* exit code of the runner script's interpreter (file mode)
file_exit_code(kind) ==
    CASE kind = "return" -> 0
      [] kind = "SystemExit(0)" -> 0
      [] kind = "SystemExit(3)" -> 3
      [] OTHER -> 1

\* sandbox.py:133-150: the target's code ends in the queue-mode worker
QueueTargetEnd(kind) ==
    /\ sb_mode = "queue"
    /\ sb_worker = "exec"
    /\ sb_raised' = kind
    /\ sb_worker' = "finishing"
    /\ IF kind = "BaseException"
       THEN \* propagates out of _execute_with_hooks: nothing is put, and
            \* multiprocessing prints the traceback on the worker's own stderr
            /\ sb_exitcode' = 1
            /\ UNCHANGED <<sb_stderr, sb_result_queue>>
       ELSE /\ sb_exitcode' = 0
            /\ sb_stderr' = IF kind = "Exception"
                            THEN Append(sb_stderr, "Traceback")
                            ELSE sb_stderr
            /\ sb_result_queue' = Append(sb_result_queue,
                   [return_code |-> queue_return_code(kind),
                    stdout |-> sb_stdout,
                    stderr |-> sb_stderr'])
    /\ UNCHANGED <<sb_ignore_term, sb_stdout, sb_log, sbParentVars, notSb>>

\* sandbox.py:73-82 (the runner script): the target's code ends in the
\* file-mode worker
FileTargetEnd(kind) ==
    /\ sb_mode = "file"
    /\ sb_worker = "exec"
    /\ sb_raised' = kind
    /\ sb_worker' = "finishing"
    /\ sb_exitcode' = file_exit_code(kind)
    /\ sb_log' = IF kind = "Exception"
                 THEN Append(sb_log, "[ERROR] Unhandled exception")
                 ELSE sb_log
    /\ sb_stderr' = CASE kind \in {"Exception", "BaseException"} ->
                             Append(sb_stderr, "Traceback")
                      [] kind = "SystemExit(str)" -> Append(sb_stderr, "str")
                      [] OTHER -> sb_stderr
    /\ UNCHANGED <<sb_ignore_term, sb_stdout, sb_result_queue, sbParentVars, notSb>>

\* the worker process ends
WorkerExit ==
    /\ sb_worker = "finishing"
    /\ sb_worker' = "exited"
    /\ UNCHANGED <<sb_ignore_term, sb_raised, sb_exitcode, sb_stdout, sb_stderr,
                   sb_log, sb_result_queue, sbParentVars, notSb>>

\* sandbox.py:191-194 / 244-253: the wait ends because the worker has ended
SbJoinDone ==
    /\ sb_pc = "join"
    /\ sb_worker = "exited"
    /\ sb_timed_out' = FALSE
    /\ sb_proc' = IF sb_mode = "file"
                  THEN [returncode |-> sb_exitcode, stdout |-> sb_stdout,
                        stderr |-> sb_stderr]
                  ELSE sb_proc
    /\ sb_pc' = "collect"
    /\ UNCHANGED <<sb_mode, sb_result, sb_at_timeout, sbWorkerVars, notSb>>

\* sandbox.py:194-197: queue mode, the worker is alive after join(timeout):
\* worker.terminate() sends SIGTERM, worker.join(1) waits one second
QueueTimeout ==
    /\ sb_pc = "join"
    /\ sb_mode = "queue"
    /\ sb_worker \in {"exec", "finishing"}
    /\ sb_timed_out' = TRUE
    /\ sb_worker' = IF sb_ignore_term THEN sb_worker ELSE "killed"
    /\ sb_at_timeout' = [stdout |-> sb_stdout, stderr |-> sb_stderr, log |-> sb_log,
                         raised |-> sb_raised]
    /\ sb_pc' = "collect"
    /\ UNCHANGED <<sb_mode, sb_proc, sb_result, sb_ignore_term, sb_raised,
                   sb_exitcode, sb_stdout, sb_stderr, sb_log, sb_result_queue,
                   notSb>>

\* sandbox.py:254-262: file mode, subprocess.run kills the child and raises
\* TimeoutExpired
FileTimeout ==
    /\ sb_pc = "join"
    /\ sb_mode = "file"
    /\ sb_worker \in {"exec", "finishing"}
    /\ sb_timed_out' = TRUE
    /\ sb_worker' = "killed"
    /\ sb_at_timeout' = [stdout |-> sb_stdout, stderr |-> sb_stderr, log |-> sb_log,
                         raised |-> sb_raised]
    /\ sb_proc' = [returncode |-> 0 - 1, stdout |-> <<>>,
                   stderr |-> <<TimeoutMessage>>]
    /\ sb_pc' = "collect"
    /\ UNCHANGED <<sb_mode, sb_result, sb_ignore_term, sb_raised, sb_exitcode,
                   sb_stdout, sb_stderr, sb_log, sb_result_queue, notSb>>

\* sandbox.py:199-215: queue mode, the result dict is built and returned
QueueCollect ==
    /\ sb_pc = "collect"
    /\ sb_mode = "queue"
    /\ LET has == sb_result_queue # <<>>
           result == sb_result_queue[1]
       IN  /\ sb_result' =
                  [return_code |-> IF has THEN result.return_code ELSE 0 - 1,
                   stdout |-> IF has THEN result.stdout ELSE <<>>,
                   stderr |-> IF has THEN result.stderr
                              ELSE IF sb_timed_out THEN <<TimeoutMessage>>
                              ELSE <<>>,
                   log_entries |-> sb_log,
                   timed_out |-> sb_timed_out]
           /\ sb_result_queue' = IF has THEN Tail(sb_result_queue) ELSE <<>>
    /\ sb_log' = <<>>
    /\ sb_pc' = "returned"
    /\ UNCHANGED <<sb_mode, sb_timed_out, sb_proc, sb_at_timeout, sb_worker,
                   sb_ignore_term, sb_raised, sb_exitcode, sb_stdout, sb_stderr,
                   notSb>>

\* sandbox.py:264-280: file mode, the log file is read and the dict returned
FileCollect ==
    /\ sb_pc = "collect"
    /\ sb_mode = "file"
    /\ sb_result' = [return_code |-> sb_proc.returncode,
                     stdout |-> sb_proc.stdout,
                     stderr |-> sb_proc.stderr,
                     log_entries |-> sb_log,
                     timed_out |-> sb_timed_out]
    /\ sb_pc' = "returned"
    /\ UNCHANGED <<sb_mode, sb_timed_out, sb_proc, sb_at_timeout, sbWorkerVars,
                   notSb>>

SbNext ==
    \/ \E mode \in LogModes : SbStart(mode)
    \/ TargetPrint
    \/ TargetPrintErr
    \/ TargetHookedCall
    \/ TargetIgnoreSigterm
    \/ \E kind \in EndKinds : QueueTargetEnd(kind)
    \/ \E kind \in EndKinds : FileTargetEnd(kind)
    \/ WorkerExit
    \/ SbJoinDone
    \/ QueueTimeout
    \/ FileTimeout
    \/ QueueCollect
    \/ FileCollect


(***************************************************************************)
(* main_controller.py: analyze_file and analyze_multiple_files.            *)
(*                                                                         *)
(* A call walks through its stages.  What a stage computes is modelled in  *)
(* the sections above; here a stage either completes or raises, and the    *)
(* `results` dict records which stages have contributed.                   *)
(***************************************************************************)
MaxFiles == 2

\* language_detector.py:29-40: what detect_language may return (a sample)
DetectedLanguages == {"python", "go", "java", "javascript", "unknown"}

\* language_detector.py:65-76
is_supported_language(language) == language \in {"python", "go", "java"}

\* the file handed to analyze_file and the settings that steer the stages
FileInputs ==
    [ empty : BOOLEAN,             \* no code: is_effectively_empty
      dependency_only : BOOLEAN,   \* the file is a requirements.txt
      language : DetectedLanguages,
      readable : BOOLEAN,          \* read_file succeeds
      syntax_ok : BOOLEAN,         \* the source parses
      toolchain : BOOLEAN,         \* gofmt / javac can be run
      enable_static : BOOLEAN,
      enable_dynamic : BOOLEAN ]

\* main_controller.py:236-245
InitialResults(language) ==
    [ skipped |-> FALSE, language |-> language, static_results |-> "{}",
      syntax_valid |-> TRUE, dynamic_results |-> "{}", aggregated |-> FALSE,
      threats |-> FALSE, risk_assessment |-> FALSE, reports |-> FALSE,
      error |-> "" ]

MainIdle ==
    /\ m_fn = "none"
    /\ m_pc = "idle"
    /\ m_input = NoResult
    /\ m_results = NoResult
    /\ m_failed = FALSE

\* a call of analyze_file(file_path, config)
AnalyzeFileCall(input) ==
    /\ m_pc = "idle"
    /\ m_fn' = "analyze_file"
    /\ m_input' = input
    /\ m_pc' = "detect"
    /\ UNCHANGED <<m_results, m_failed, notMain>>

\* main_controller.py:200-245: the empty-file shortcut, language detection
FileDetect ==
    /\ m_fn = "analyze_file"
    /\ m_pc = "detect"
    /\ IF m_input.empty /\ m_input.readable
       THEN /\ m_results' = [InitialResults("unknown") EXCEPT !.skipped = TRUE]
            /\ m_pc' = "returned"
       ELSE IF m_input.dependency_only
       THEN /\ m_results' = InitialResults("python")
            /\ m_pc' = "preprocess"
       ELSE IF ~is_supported_language(m_input.language)
       THEN \* line 234: raise ValueError, before the try of line 247
            /\ m_results' = m_results
            /\ m_pc' = "raised"
       ELSE /\ m_results' = InitialResults(m_input.language)
            /\ m_pc' = "preprocess"
    /\ UNCHANGED <<m_fn, m_input, m_failed, notMain>>

\* main_controller.py:550-556: except Exception: results['error'] = str(e);
\* return results
Caught(msg) ==
    /\ m_results' = [m_results EXCEPT !.error = msg]
    /\ m_pc' = "returned"

\* main_controller.py:248-280: read_file, then build_ast (Python: raises
\* SyntaxError on a source that does not parse, ast_builder.py:36-47)
FilePreprocess ==
    /\ m_fn = "analyze_file"
    /\ m_pc = "preprocess"
    /\ IF m_input.dependency_only
       THEN m_pc' = "static" /\ UNCHANGED <<m_results, m_failed>>
       ELSE IF ~m_input.readable
       THEN Caught("File not found") /\ m_failed' = TRUE
       ELSE IF m_results.language = "python" /\ ~m_input.syntax_ok
       THEN Caught("Syntax error") /\ UNCHANGED m_failed
       ELSE m_pc' = "static" /\ UNCHANGED <<m_results, m_failed>>
    /\ UNCHANGED <<m_fn, m_input, notMain>>

\* the 'valid' that the language's syntax checker returns: syntax_checker.py
\* check_syntax; go_syntax_checker.py:32-42 and java_syntax_checker.py:121-127
\* answer valid when the toolchain is missing
syntax_check_valid(language, input) ==
    IF language = "python" THEN input.syntax_ok
    ELSE input.syntax_ok \/ ~input.toolchain

\* main_controller.py:282-406: step 2, static analysis
FileStatic(ok) ==
    /\ m_fn = "analyze_file"
    /\ m_pc = "static"
    /\ IF ~m_input.enable_static
       THEN /\ m_results' = [m_results EXCEPT !.static_results = "disabled",
                                              !.syntax_valid = TRUE]
            /\ m_pc' = "dynamic"
            /\ UNCHANGED m_failed
       ELSE IF ~ok
       THEN Caught("static analysis failed") /\ m_failed' = TRUE
       ELSE /\ m_results' =
                [m_results EXCEPT
                    !.static_results = "filled",
                    !.syntax_valid =
                        IF m_input.dependency_only THEN TRUE
                        ELSE syntax_check_valid(m_results.language, m_input)]
            /\ m_pc' = "dynamic"
            /\ UNCHANGED m_failed
    /\ UNCHANGED <<m_fn, m_input, notMain>>

\* main_controller.py:408-502: step 3, dynamic analysis
FileDynamic(ok) ==
    /\ m_fn = "analyze_file"
    /\ m_pc = "dynamic"
    /\ IF ~(m_input.enable_dynamic /\ ~m_input.dependency_only)
       THEN /\ m_results' = [m_results EXCEPT !.dynamic_results = "disabled"]
            /\ m_pc' = "analysis"
            /\ UNCHANGED m_failed
       ELSE IF ~ok
       THEN Caught("dynamic analysis failed") /\ m_failed' = TRUE
       ELSE /\ m_results' = [m_results EXCEPT !.dynamic_results = "filled"]
            /\ m_pc' = "analysis"
            /\ UNCHANGED m_failed
    /\ UNCHANGED <<m_fn, m_input, notMain>>

\* main_controller.py:504-518: step 4, aggregate_results, identify_threats,
\* assess_risk
FileAnalysis(ok) ==
    /\ m_fn = "analyze_file"
    /\ m_pc = "analysis"
    /\ IF ~ok
       THEN Caught("result analysis failed") /\ m_failed' = TRUE
       ELSE /\ m_results' = [m_results EXCEPT !.aggregated = TRUE,
                                              !.threats = TRUE,
                                              !.risk_assessment = TRUE]
            /\ m_pc' = "reports"
            /\ UNCHANGED m_failed
    /\ UNCHANGED <<m_fn, m_input, notMain>>

\* main_controller.py:520-556: step 5, the reports are written; return results
FileReports(ok) ==
    /\ m_fn = "analyze_file"
    /\ m_pc = "reports"
    /\ IF ~ok
       THEN Caught("report generation failed") /\ m_failed' = TRUE
       ELSE /\ m_results' = [m_results EXCEPT !.reports = TRUE]
            /\ m_pc' = "returned"
            /\ UNCHANGED m_failed
    /\ UNCHANGED <<m_fn, m_input, notMain>>

\* a call of analyze_multiple_files(file_paths, config); lines 569-580 return
\* at once when file_paths is empty
AnalyzeMultipleFilesCall(n, language) ==
    /\ m_pc = "idle"
    /\ (language = "mixed") => n > 1
    /\ m_fn' = "analyze_multiple_files"
    /\ m_input' = [files |-> n, language |-> language]
    /\ IF n = 0
       THEN /\ m_results' = [InitialResults("unknown")
                                EXCEPT !.error = "no files provided"]
            /\ m_pc' = "returned"
       ELSE /\ m_results' = m_results
            /\ m_pc' = "deps"
    /\ UNCHANGED <<m_failed, notMain>>

\* main_controller.py:582-603: the project label and the dependency scan, each
\* under its own try
MultiDeps(ok) ==
    /\ m_fn = "analyze_multiple_files"
    /\ m_pc = "deps"
    /\ m_pc' = "agent"
    /\ UNCHANGED <<m_fn, m_input, m_results, m_failed, notMain>>

\* main_controller.py:605: run_agent_analysis, outside any try
MultiAgent(ok) ==
    /\ m_fn = "analyze_multiple_files"
    /\ m_pc = "agent"
    /\ IF ok
       THEN m_pc' = "analysis" /\ UNCHANGED m_failed
       ELSE m_pc' = "raised" /\ m_failed' = TRUE
    /\ UNCHANGED <<m_fn, m_input, m_results, notMain>>

\* main_controller.py:607-683: aggregate_results, identify_threats,
\* merge_threats, assess_risk_from_counts; `results` is built
MultiAnalysis(ok) ==
    /\ m_fn = "analyze_multiple_files"
    /\ m_pc = "analysis"
    /\ IF ok
       THEN /\ m_results' =
                [InitialResults(m_input.language)
                    EXCEPT !.static_results = "filled",
                           !.dynamic_results = "filled",
                           !.aggregated = TRUE,
                           !.threats = TRUE,
                           !.risk_assessment = TRUE]
            /\ m_pc' = "reports"
            /\ UNCHANGED m_failed
       ELSE /\ m_pc' = "raised"
            /\ m_failed' = TRUE
            /\ UNCHANGED m_results
    /\ UNCHANGED <<m_fn, m_input, notMain>>

\* main_controller.py:685-704: the reports are written, outside any try
MultiReports(ok) ==
    /\ m_fn = "analyze_multiple_files"
    /\ m_pc = "reports"
    /\ IF ok
       THEN /\ m_results' = [m_results EXCEPT !.reports = TRUE]
            /\ m_pc' = "returned"
            /\ UNCHANGED m_failed
       ELSE /\ m_pc' = "raised"
            /\ m_failed' = TRUE
            /\ UNCHANGED m_results
    /\ UNCHANGED <<m_fn, m_input, notMain>>

MainNext ==
    \/ \E input \in FileInputs : AnalyzeFileCall(input)
    \/ FileDetect
    \/ FilePreprocess
    \/ \E ok \in BOOLEAN : FileStatic(ok)
    \/ \E ok \in BOOLEAN : FileDynamic(ok)
    \/ \E ok \in BOOLEAN : FileAnalysis(ok)
    \/ \E ok \in BOOLEAN : FileReports(ok)
    \/ \E n \in 0..MaxFiles : \E language \in DetectedLanguages \cup {"mixed"} :
           AnalyzeMultipleFilesCall(n, language)
    \/ \E ok \in BOOLEAN : MultiDeps(ok)
    \/ \E ok \in BOOLEAN : MultiAgent(ok)
    \/ \E ok \in BOOLEAN : MultiAnalysis(ok)
    \/ \E ok \in BOOLEAN : MultiReports(ok)

(***************************************************************************)
(* engines/dynamic/syscall_monitor.py: HookedRuntime._log under threads.   *)
(*                                                                         *)
(* A hooked call made by a thread of the target runs _log: it reads the    *)
(* clock and formats the entry, then puts the entry on the queue or, under *)
(* log_lock, appends it to the file.  Threads interleave between the two.  *)
(* The run here always ends normally: no timeout, every thread finishes.   *)
(***************************************************************************)
MaxLogCalls == 3

Threads == {1, 2}

LgIdle ==
    /\ lg_mode = "none"
    /\ lg_pc = "idle"
    /\ lg_clock = 0
    /\ lg_pending = [t \in Threads |-> NoResult]
    /\ lg_dest = <<>>
    /\ lg_emitted = <<>>
    /\ lg_entries = <<>>

\* sandbox.py:183-190 / 239-251: the worker starts with hooks installed
LogStart(mode) ==
    /\ lg_pc = "idle"
    /\ lg_mode' = mode
    /\ lg_pc' = "run"
    /\ UNCHANGED <<lg_clock, lg_pending, lg_dest, lg_emitted, lg_entries, notLg>>

\* syscall_monitor.py:112-113: thread t reads the clock and formats its entry
LogStamp(t) ==
    /\ lg_pc = "run"
    /\ lg_pending[t] = NoResult
    /\ lg_clock < MaxLogCalls
    /\ lg_clock' = lg_clock + 1
    /\ LET log_entry == [timestamp |-> lg_clock', thread |-> t]
       IN  /\ lg_pending' = [lg_pending EXCEPT ![t] = log_entry]
           /\ lg_emitted' = Append(lg_emitted, log_entry)
    /\ UNCHANGED <<lg_mode, lg_pc, lg_dest, lg_entries, notLg>>

\* syscall_monitor.py:115-126: thread t puts its entry on log_queue, or takes
\* log_lock and appends it to the file
LogWrite(t) ==
    /\ lg_pc = "run"
    /\ lg_pending[t] # NoResult
    /\ lg_dest' = Append(lg_dest, lg_pending[t])
    /\ lg_pending' = [lg_pending EXCEPT ![t] = NoResult]
    /\ UNCHANGED <<lg_mode, lg_pc, lg_clock, lg_emitted, lg_entries, notLg>>

\* sandbox.py:191 / 244: the target's threads have finished and the worker
\* has exited
LogWorkerEnd ==
    /\ lg_pc = "run"
    /\ \A t \in Threads : lg_pending[t] = NoResult
    /\ lg_pc' = "ended"
    /\ UNCHANGED <<lg_mode, lg_clock, lg_pending, lg_dest, lg_emitted,
                   lg_entries, notLg>>

\* sandbox.py:97-103, 206 (_drain_queue) / 265-268 (readlines)
LogDrain ==
    /\ lg_pc = "ended"
    /\ lg_entries' = lg_dest
    /\ lg_dest' = IF lg_mode = "queue" THEN <<>> ELSE lg_dest
    /\ lg_pc' = "returned"
    /\ UNCHANGED <<lg_mode, lg_clock, lg_pending, lg_emitted, notLg>>

LgNext ==
    \/ \E mode \in LogModes : LogStart(mode)
    \/ \E t \in Threads : LogStamp(t)
    \/ \E t \in Threads : LogWrite(t)
    \/ LogWorkerEnd
    \/ LogDrain


(***************************************************************************)
(* Two concurrent analyze_file calls (main_controller.py) on one host,     *)
(* with the same settings.  The calls share the wall clock and the file    *)
(* system; each picks its file names from the clock and its input's name.  *)
(***************************************************************************)
MaxTicks == 4

\* ticks of the microsecond clock that fall into one second
TicksPerSecond == 2

Calls == {1, 2}

InputFiles == {<<"a", "x.py">>, <<"b", "x.py">>, <<"a", "y.py">>}

\* os.path.splitext(os.path.basename(file_path))[0]
base_name(file_path) ==
    CASE file_path[2] = "x.py" -> "x"
      [] file_path[2] = "y.py" -> "y"

\* open(path, 'w') followed by write: whatever the file held is replaced
WriteFile(fs, path, call) ==
    [p \in DOMAIN fs \cup {path} |-> IF p = path THEN <<call>> ELSE fs[p]]

CcIdle ==
    /\ cc_clock = 0
    /\ cc_pc = [c \in Calls |-> "idle"]
    /\ cc_file = [c \in Calls |-> <<>>]
    /\ cc_log_file = [c \in Calls |-> <<>>]
    /\ cc_reports = [c \in Calls |-> <<>>]
    /\ cc_fs = <<>>

\* time passes
CcTick ==
    /\ cc_clock < MaxTicks
    /\ cc_clock' = cc_clock + 1
    /\ UNCHANGED <<cc_pc, cc_file, cc_log_file, cc_reports, cc_fs, notCc>>

\* main_controller.py: analyze_file(file_path, ...) is called
CcCall(c, file_path) ==
    /\ cc_pc[c] = "idle"
    /\ cc_pc' = [cc_pc EXCEPT ![c] = "dynamic"]
    /\ cc_file' = [cc_file EXCEPT ![c] = file_path]
    /\ UNCHANGED <<cc_clock, cc_log_file, cc_reports, cc_fs, notCc>>

\* sandbox.py:217-234 (go_dynamic_runner.py:115-124): the log file is named by
\* the clock to the microsecond and created; reading the clock takes a tick
CcSandbox(c) ==
    /\ cc_pc[c] = "dynamic"
    /\ cc_clock < MaxTicks
    /\ cc_clock' = cc_clock + 1
    /\ LET log_file == <<"sandbox", cc_clock>>
       IN  /\ cc_log_file' = [cc_log_file EXCEPT ![c] = log_file]
           /\ cc_fs' = WriteFile(cc_fs, log_file, c)
    /\ cc_pc' = [cc_pc EXCEPT ![c] = "reports"]
    /\ UNCHANGED <<cc_file, cc_reports, notCc>>

\* main_controller.py:520-546: the reports are named by the input's base name
\* and the clock to the second, and written
CcReports(c) ==
    /\ cc_pc[c] = "reports"
    /\ LET timestamp == cc_clock \div TicksPerSecond
           json_path == <<base_name(cc_file[c]), timestamp>>
       IN  /\ cc_reports' = [cc_reports EXCEPT ![c] = json_path]
           /\ cc_fs' = WriteFile(cc_fs, json_path, c)
    /\ cc_pc' = [cc_pc EXCEPT ![c] = "done"]
    /\ UNCHANGED <<cc_clock, cc_file, cc_log_file, notCc>>

CcNext ==
    \/ CcTick
    \/ \E c \in Calls : \E file_path \in InputFiles : CcCall(c, file_path)
    \/ \E c \in Calls : CcSandbox(c)
    \/ \E c \in Calls : CcReports(c)


(***************************************************************************)
(* engines/dynamic/process_monitor.py, go_dynamic_runner.py and            *)
(* java_dynamic_runner.py: a started target is sampled through psutil      *)
(* until it exits or the timeout elapses.                                  *)
(*                                                                         *)
(* The target (pid 1) may open files and connections, spawn a child        *)
(* (pid 2), set SIGTERM to be ignored, and exit.  A sample reads what the  *)
(* sampled processes hold at that moment.                                  *)
(***************************************************************************)
MaxSamples == 2

Runners == {"process_monitor", "go", "java"}

AddrA == "8.8.8.8:53"

\* what open_files() can report: (path, mode)
OpenPool == {<<"/tmp/out.txt", "r">>, <<"/tmp/out.txt", "w">>}

\* any enumeration of a finite set, as psutil returns a list
RECURSIVE SetToSeq(_)
SetToSeq(S) ==
    IF S = {} THEN <<>>
    ELSE LET x == CHOOSE y \in S : TRUE IN <<x>> \o SetToSeq(S \ {x})

\* the processes one sample reads: process_monitor.py:114,139 reads ps_proc
\* only; go_dynamic_runner.py:222-226 adds process.children(recursive=True)
sampled_pids(runner, child) ==
    IF runner # "process_monitor" /\ child = "running" THEN {1, 2} ELSE {1}

\* process_monitor.py:120-125, go_dynamic_runner.py:264-269
activity_of(conn) ==
    IF conn.raddr # ""
    THEN [type |-> "connect", target |-> conn.raddr]
    ELSE [type |-> "bind", target |-> conn.laddr]

\* process_monitor.py:126, go_dynamic_runner.py:259
conn_key(runner, conn) ==
    IF runner = "process_monitor"
    THEN <<activity_of(conn).type, activity_of(conn).target>>
    ELSE <<conn.pid, conn.laddr, conn.raddr, conn.status>>

\* process_monitor.py:141-142, go_dynamic_runner.py:240
file_key(runner, open_file) ==
    IF runner = "process_monitor"
    THEN <<open_file.path>>
    ELSE <<open_file.pid, open_file.path, open_file.mode>>

\* process_monitor.py:114-137, go_dynamic_runner.py:256-281: the loop over
\* net_connections(); acc is [seen, acts]
RECURSIVE sample_connections(_, _, _)
sample_connections(runner, conns, acc) ==
    IF conns = <<>> THEN acc
    ELSE LET conn == conns[1]
             key == conn_key(runner, conn)
         IN  sample_connections(runner, Tail(conns),
                 IF key \in acc.seen THEN acc
                 ELSE [seen |-> acc.seen \cup {key},
                       acts |-> Append(acc.acts, activity_of(conn))])

\* process_monitor.py:139-151, go_dynamic_runner.py:238-254: the loop over
\* open_files(); acc is [seen, acts]
RECURSIVE sample_files(_, _, _)
sample_files(runner, open_files, acc) ==
    IF open_files = <<>> THEN acc
    ELSE LET open_file == open_files[1]
             key == file_key(runner, open_file)
         IN  sample_files(runner, Tail(open_files),
                 IF key \in acc.seen THEN acc
                 ELSE [seen |-> acc.seen \cup {key},
                       acts |-> Append(acc.acts,
                           [operation |-> "open", file_path |-> open_file.path,
                            mode |-> IF runner = "process_monitor" THEN ""
                                     ELSE open_file.mode])])

MonIdle ==
    /\ mon_runner = "none"
    /\ mon_pc = "idle"
    /\ mon_target = "none"
    /\ mon_ignore_term = FALSE
    /\ mon_child = "none"
    /\ mon_conns = {}
    /\ mon_files = {}
    /\ mon_samples = 0
    /\ mon_seen_net = {}
    /\ mon_seen_files = {}
    /\ mon_network = <<>>
    /\ mon_file_acts = <<>>
    /\ mon_timed_out = FALSE
    /\ mon_obs_net = {}
    /\ mon_obs_files = {}

monOs == <<mon_target, mon_ignore_term, mon_child, mon_conns, mon_files>>
monLocals == <<mon_runner, mon_pc, mon_samples, mon_seen_net, mon_seen_files,
               mon_network, mon_file_acts, mon_timed_out, mon_obs_net,
               mon_obs_files>>

\* process_monitor.py:79-104, go_dynamic_runner.py:184-199: Popen(command)
MonStart(runner) ==
    /\ mon_pc = "idle"
    /\ mon_runner' = runner
    /\ mon_pc' = "loop"
    /\ mon_target' = "running"
    /\ UNCHANGED <<mon_ignore_term, mon_child, mon_conns, mon_files, mon_samples,
                   mon_seen_net, mon_seen_files, mon_network, mon_file_acts,
                   mon_timed_out, mon_obs_net, mon_obs_files, notMon>>

\* the target dials AddrA: the connection starts in SYN_SENT
TgtConnect ==
    /\ mon_target = "running"
    /\ mon_conns = {}
    /\ mon_conns' = {[pid |-> 1, laddr |-> "10.0.0.2:40000", raddr |-> AddrA,
                      status |-> "SYN_SENT"]}
    /\ UNCHANGED <<mon_target, mon_ignore_term, mon_child, mon_files, monLocals,
                   notMon>>

\* the handshake completes
TgtEstablished ==
    /\ mon_target = "running"
    /\ \E conn \in mon_conns :
           /\ conn.status = "SYN_SENT"
           /\ mon_conns' = (mon_conns \ {conn})
                           \cup {[conn EXCEPT !.status = "ESTABLISHED"]}
    /\ UNCHANGED <<mon_target, mon_ignore_term, mon_child, mon_files, monLocals,
                   notMon>>

\* the target listens on a port: a connection without remote address
TgtListen ==
    /\ mon_target = "running"
    /\ mon_conns = {}
    /\ mon_conns' = {[pid |-> 1, laddr |-> "0.0.0.0:8080", raddr |-> "",
                      status |-> "LISTEN"]}
    /\ UNCHANGED <<mon_target, mon_ignore_term, mon_child, mon_files, monLocals,
                   notMon>>

\* a running process opens a file
TgtOpen(pid, f) ==
    /\ mon_target = "running"
    /\ pid = 2 => mon_child = "running"
    /\ Cardinality(mon_files) < 2
    /\ mon_files' = mon_files \cup {[pid |-> pid, path |-> f[1], mode |-> f[2]]}
    /\ UNCHANGED <<mon_target, mon_ignore_term, mon_child, mon_conns, monLocals,
                   notMon>>

\* the target spawns a child process
TgtSpawn ==
    /\ mon_target = "running"
    /\ mon_child = "none"
    /\ mon_child' = "running"
    /\ UNCHANGED <<mon_target, mon_ignore_term, mon_conns, mon_files, monLocals,
                   notMon>>

\* the target runs signal.Ignore(SIGTERM) / signal.signal(SIGTERM, SIG_IGN)
TgtIgnoreSigterm ==
    /\ mon_target = "running"
    /\ ~mon_ignore_term
    /\ mon_ignore_term' = TRUE
    /\ UNCHANGED <<mon_target, mon_child, mon_conns, mon_files, monLocals, notMon>>

\* the target exits by itself; what it held is closed
TgtExit ==
    /\ mon_target = "running"
    /\ mon_target' = "exited"
    /\ mon_conns' = {conn \in mon_conns : conn.pid # 1}
    /\ mon_files' = {open_file \in mon_files : open_file.pid # 1}
    /\ UNCHANGED <<mon_ignore_term, mon_child, monLocals, notMon>>

\* process_monitor.py:106-200, go_dynamic_runner.py:208-283: one pass of the
\* loop with the target alive and the timeout not elapsed
MonSample ==
    /\ mon_pc = "loop"
    /\ mon_target = "running"
    /\ mon_samples < MaxSamples
    /\ LET pids == sampled_pids(mon_runner, mon_child)
           conns == {conn \in mon_conns : conn.pid \in pids}
           open_files == {open_file \in mon_files : open_file.pid \in pids}
           net == sample_connections(mon_runner, SetToSeq(conns),
                      [seen |-> mon_seen_net, acts |-> mon_network])
           fil == sample_files(mon_runner, SetToSeq(open_files),
                      [seen |-> mon_seen_files, acts |-> mon_file_acts])
       IN  /\ mon_seen_net' = net.seen
           /\ mon_network' = net.acts
           /\ mon_seen_files' = fil.seen
           /\ mon_file_acts' = fil.acts
           /\ mon_obs_net' = mon_obs_net \cup conns
           /\ mon_obs_files' = mon_obs_files \cup open_files
    /\ mon_samples' = mon_samples + 1
    /\ UNCHANGED <<mon_runner, mon_pc, mon_timed_out, monOs, notMon>>

\* process_monitor.py:107-108, 202-230 / go_dynamic_runner.py:209-210,
\* 285-321: poll() sees that the target has exited; the call returns
MonTargetGone ==
    /\ mon_pc = "loop"
    /\ mon_target = "exited"
    /\ mon_pc' = "returned"
    /\ UNCHANGED <<mon_runner, mon_samples, mon_seen_net, mon_seen_files,
                   mon_network, mon_file_acts, mon_timed_out, mon_obs_net,
                   mon_obs_files, monOs, notMon>>

\* the timeout elapses with the target alive.  process_monitor.py:109-111,
\* 202-211: terminate(), communicate(timeout=2).  go_dynamic_runner.py:
\* 212-215, 285-296: terminate(), communicate(timeout=2), kill().  Nothing
\* is sent to the processes the target spawned.  The call returns.
MonTimeout ==
    /\ mon_pc = "loop"
    /\ mon_target = "running"
    /\ mon_timed_out' = TRUE
    /\ mon_target' = IF mon_runner = "process_monitor" /\ mon_ignore_term
                     THEN "running" ELSE "killed"
    /\ mon_conns' = IF mon_target' = "killed"
                    THEN {conn \in mon_conns : conn.pid # 1} ELSE mon_conns
    /\ mon_files' = IF mon_target' = "killed"
                    THEN {open_file \in mon_files : open_file.pid # 1}
                    ELSE mon_files
    /\ mon_pc' = "returned"
    /\ UNCHANGED <<mon_runner, mon_samples, mon_seen_net, mon_seen_files,
                   mon_network, mon_file_acts, mon_obs_net, mon_obs_files,
                   mon_ignore_term, mon_child, notMon>>

MonNext ==
    \/ \E runner \in Runners : MonStart(runner)
    \/ TgtConnect
    \/ TgtEstablished
    \/ TgtListen
    \/ \E pid \in {1, 2} : \E f \in OpenPool : TgtOpen(pid, f)
    \/ TgtSpawn
    \/ TgtIgnoreSigterm
    \/ TgtExit
    \/ MonSample
    \/ MonTargetGone
    \/ MonTimeout


(***************************************************************************)
(* engines/dynamic/fuzzer.py: fuzz_execution with use_sandbox=True.  One   *)
(* fuzz case is one run_in_sandbox call of the sandbox section; a case may *)
(* also fail before the sandbox has started anything.                      *)
(***************************************************************************)
FzIdle ==
    /\ fz_results = <<>>
    /\ fz_done = FALSE

\* fuzzer.py:123-127: the crashed flag
crashed_of(result) ==
    \/ (result.return_code # 0 /\ ~result.timed_out)
    \/ \E i \in 1..Len(result.stderr) : Contains(result.stderr[i], "Traceback")
    \/ \E i \in 1..Len(result.stderr) : Contains(result.stderr[i], "Error")

\* fuzzer.py:110-164: run_in_sandbox has returned and the case is recorded
FuzzRecord ==
    /\ sb_pc = "returned"
    /\ ~fz_done
    /\ fz_results' = Append(fz_results,
           [return_code |-> sb_result.return_code,
            crashed |-> crashed_of(sb_result),
            stderr |-> sb_result.stderr,
            timed_out |-> sb_result.timed_out,
            line_numbers |-> <<>>])
    /\ fz_done' = TRUE
    /\ UNCHANGED notFz

\* fuzzer.py:166-179: the call of run_in_sandbox raised
FuzzInvocationRaises ==
    /\ sb_pc = "idle"
    /\ fz_results = <<>>
    /\ fz_results' = <<[return_code |-> 0 - 1, crashed |-> TRUE,
                        stderr |-> <<"str(e)">>, timed_out |-> FALSE,
                        error |-> "str(e)"]>>
    /\ UNCHANGED <<fz_done, notFz>>

FzNext == FuzzRecord \/ FuzzInvocationRaises


(***************************************************************************)
(* engines/static/pattern_matcher.py: match_patterns.                      *)
(*                                                                         *)
(* A line is a sequence of tokens and a valid pattern matches every        *)
(* occurrence of one token, so that finditer yields one match per          *)
(* occurrence, left to right.                                              *)
(***************************************************************************)
MaxRules == 3

MaxSrcLines == 2

SrcLinePool == {<<>>, <<"eval">>, <<"eval", "eval">>, <<"exec", "eval">>, <<"x">>}

\* compiles: a valid pattern; re.error: re.compile raises re.error;
\* TypeError: the pattern is not a string; empty: pattern == ''
RulePool ==
    {[id |-> "r_eval", pattern |-> "eval", compiles |-> "yes"],
     [id |-> "r_exec", pattern |-> "exec", compiles |-> "yes"],
     [id |-> "r_paren", pattern |-> "(", compiles |-> "re.error"],
     [id |-> "r_int", pattern |-> "7", compiles |-> "TypeError"],
     [id |-> "r_empty", pattern |-> "", compiles |-> "yes"]}

\* pattern_matcher.py:56-73: regex.finditer(line) and the records appended
line_matches(rule, line_num, line) ==
    LET cols == SelectSeq([c \in 1..Len(line) |-> c],
                          LAMBDA c : line[c] = rule.pattern)
    IN  [k \in 1..Len(cols) |->
            [rule_id |-> rule.id, line |-> line_num,
             matched_text |-> line[cols[k]], col_offset |-> cols[k] - 1]]

\* pattern_matcher.py:47-79: one pass of `for rule in rules`
rule_matches(rule, lines) ==
    IF rule.pattern = "" THEN <<>>
    ELSE IF rule.compiles # "yes" THEN <<>>
    ELSE Flatten([n \in 1..Len(lines) |-> line_matches(rule, n, lines[n])])

\* matches as they are, without sorting
unsorted(matches, nlines) == matches

\* pattern_matcher.py:82: matches.sort(key=lambda x: x['line']), a stable sort
sort_by_line(matches, nlines) ==
    Flatten([n \in 1..nlines |-> SelectSeq(matches, LAMBDA m : m.line = n)])

\* pattern_matcher.py:12-84
match_patterns(lines, rules) ==
    IF lines = <<>> \/ rules = <<>> THEN <<>>
    ELSE sort_by_line(
             Flatten([r \in 1..Len(rules) |-> rule_matches(rules[r], lines)]),
             Len(lines))

PmIdle ==
    /\ pm_lines = <<>>
    /\ pm_rules = <<>>
    /\ pm_matches = <<>>
    /\ pm_pc = "build"

\* the caller's source text grows by a line
PmAddLine(line) ==
    /\ pm_pc = "build"
    /\ Len(pm_lines) < MaxSrcLines
    /\ pm_lines' = Append(pm_lines, line)
    /\ UNCHANGED <<pm_rules, pm_matches, pm_pc, notPm>>

\* the caller's rule list grows by a rule
PmAddRule(rule) ==
    /\ pm_pc = "build"
    /\ Len(pm_rules) < MaxRules
    /\ pm_rules' = Append(pm_rules, rule)
    /\ UNCHANGED <<pm_lines, pm_matches, pm_pc, notPm>>

\* main_controller.py: pattern_matches = match_patterns(source_code, rules)
MatchPatterns ==
    /\ pm_pc = "build"
    /\ pm_matches' = match_patterns(pm_lines, pm_rules)
    /\ pm_pc' = "done"
    /\ UNCHANGED <<pm_lines, pm_rules, notPm>>

PmNext ==
    \/ \E line \in SrcLinePool : PmAddLine(line)
    \/ \E rule \in RulePool : PmAddRule(rule)
    \/ MatchPatterns


(***************************************************************************)
(* engines/static/cfg_analysis.py (CFGAnalyzer on a Python AST) and        *)
(* engines/static/go_cfg_analysis.py (brace counting on Go lines).         *)
(***************************************************************************)
MaxGoLines == 4

\* ---- Python: AST nodes with the fields the analyzer reads
Simple(lineno) ==
    [kind |-> "stmt", lineno |-> lineno, body |-> <<>>, handlers |-> <<>>,
     orelse |-> <<>>, finalbody |-> <<>>]

Compound(kind, lineno, body, handlers, orelse, finalbody) ==
    [kind |-> kind, lineno |-> lineno, body |-> body, handlers |-> handlers,
     orelse |-> orelse, finalbody |-> finalbody]

\* module bodies: a two-line if, a one-line if, if/else, a try inside an if,
\* an if/else inside a while, try/except/finally
PyPool ==
    {<<Compound("if", 1, <<Simple(2), Simple(3)>>, <<>>, <<>>, <<>>)>>,
     <<Compound("if", 1, <<Simple(1)>>, <<>>, <<>>, <<>>)>>,
     <<Compound("if", 1, <<Simple(2)>>, <<>>, <<Simple(4)>>, <<>>)>>,
     <<Compound("if", 1,
           <<Compound("try", 2, <<Simple(3)>>, <<<<Simple(5)>>>>, <<>>, <<>>)>>,
           <<>>, <<>>, <<>>)>>,
     <<Compound("while", 1,
           <<Compound("if", 2, <<Simple(3)>>, <<>>, <<Simple(5)>>, <<>>)>>,
           <<>>, <<>>, <<>>)>>,
     <<Compound("try", 1, <<Simple(2)>>, <<<<Simple(4)>>>>, <<>>, <<Simple(6)>>)>>}

IsStructure(stmt) == stmt.kind \in {"if", "for", "while", "try"}

\* cfg_analysis.py:47-66 without the final sorted(set(...)): the lines gathered
RECURSIVE body_line_set(_)
body_line_set(body) ==
    IF body = <<>> THEN {}
    ELSE LET stmt == body[1]
             nested ==
                 IF ~IsStructure(stmt) THEN {}
                 ELSE body_line_set(stmt.body)
                      \cup (IF stmt.kind = "try"
                            THEN body_line_set(Flatten(stmt.handlers))
                                 \cup body_line_set(stmt.orelse)
                                 \cup body_line_set(stmt.finalbody)
                            ELSE body_line_set(stmt.orelse))
         IN  {stmt.lineno} \cup nested \cup body_line_set(Tail(body))

\* cfg_analysis.py:47-66 _get_body_lines
get_body_lines(body) == SortedSeq(body_line_set(body))

\* the largest of a line and the lines of a list of statements
MaxLineno(max_line, stmts) ==
    LET S == {max_line} \cup {stmts[i].lineno : i \in 1..Len(stmts)}
    IN  CHOOSE x \in S : \A y \in S : y <= x

\* cfg_analysis.py:68-86 _get_end_line
RECURSIVE get_end_line(_)
get_end_line(node) ==
    LET nested == {get_end_line(node.body[i]) :
                      i \in {k \in 1..Len(node.body) : IsStructure(node.body[k])}}
        in_body == MaxLineno(node.lineno, node.body)
        with_nested == CHOOSE x \in nested \cup {in_body} :
                           \A y \in nested \cup {in_body} : y <= x
    IN  MaxLineno(MaxLineno(with_nested, node.orelse), node.finalbody)

\* cfg_analysis.py:88-160: visit_If / visit_For / visit_While / visit_Try and
\* generic_visit over a list of statements
RECURSIVE visit(_)
visit(stmts) ==
    IF stmts = <<>> THEN <<>>
    ELSE LET node == stmts[1]
         IN  (IF IsStructure(node)
              THEN <<[type |-> node.kind, start_line |-> node.lineno,
                      end_line |-> get_end_line(node),
                      body_lines |-> get_body_lines(node.body)]>>
                   \o visit(node.body) \o visit(Flatten(node.handlers))
                   \o visit(node.orelse) \o visit(node.finalbody)
              ELSE <<>>)
             \o visit(Tail(stmts))

\* ---- Go: a line is known by its braces, whether it is blank, and the
\* keyword pattern it matches (go_cfg_analysis.py:77-82)
GoLinePool ==
    {[text |-> "if x {", opens |-> 1, closes |-> 0, type |-> "if"],
     [text |-> "for i < n {", opens |-> 1, closes |-> 0, type |-> "for"],
     [text |-> "if x { a() }", opens |-> 1, closes |-> 1, type |-> "if"],
     [text |-> "a()", opens |-> 0, closes |-> 0, type |-> ""],
     [text |-> "", opens |-> 0, closes |-> 0, type |-> ""],
     [text |-> "}", opens |-> 0, closes |-> 1, type |-> ""]}

\* go_cfg_analysis.py:41-51 _find_block_end, as a 1-based line number
RECURSIVE find_block_end(_, _, _, _)
find_block_end(lines, idx, brace_count, started) ==
    IF idx > Len(lines) THEN Len(lines)
    ELSE LET count == brace_count + lines[idx].opens - lines[idx].closes
             now_started == started \/ lines[idx].opens > 0
         IN  IF now_started /\ count = 0 THEN idx
             ELSE find_block_end(lines, idx + 1, count, now_started)

\* go_cfg_analysis.py:54-59 _collect_body_lines, on 1-based line numbers
collect_body_lines(lines, start, end) ==
    SelectSeq([k \in 1..(IF end - start - 1 > 0 THEN end - start - 1 ELSE 0) |->
                  start + k],
              LAMBDA n : lines[n].text # "")

\* go_cfg_analysis.py:62-108 analyze
go_cfg_analyze(lines) ==
    Flatten([idx \in 1..Len(lines) |->
        IF lines[idx].type = "" THEN <<>>
        ELSE LET end == find_block_end(lines, idx, 0, FALSE)
             IN  <<[type |-> lines[idx].type, start_line |-> idx,
                    end_line |-> end,
                    body_lines |-> collect_body_lines(lines, idx, end)]>>])

CfgIdle ==
    /\ cfg_lang = "none"
    /\ cfg_go_lines = <<>>
    /\ cfg_structures = <<>>

\* the Go source grows by a line
CfgGoAddLine(line) ==
    /\ cfg_lang = "none"
    /\ Len(cfg_go_lines) < MaxGoLines
    /\ cfg_go_lines' = Append(cfg_go_lines, line)
    /\ UNCHANGED <<cfg_lang, cfg_structures, notCfg>>

\* main_controller.py: cfg_structures = analyze_go_cfg(source_code)
CfgGoAnalyze ==
    /\ cfg_lang = "none"
    /\ cfg_go_lines # <<>>
    /\ cfg_lang' = "go"
    /\ cfg_structures' = go_cfg_analyze(cfg_go_lines)
    /\ UNCHANGED <<cfg_go_lines, notCfg>>

\* cfg_analysis.py:163-184 analyze(ast_tree)
CfgPyAnalyze(module_body) ==
    /\ cfg_lang = "none"
    /\ cfg_go_lines = <<>>
    /\ cfg_lang' = "python"
    /\ cfg_structures' = visit(module_body)
    /\ UNCHANGED <<cfg_go_lines, notCfg>>

CfgNext ==
    \/ \E line \in GoLinePool : CfgGoAddLine(line)
    \/ CfgGoAnalyze
    \/ \E module_body \in PyPool : CfgPyAnalyze(module_body)


(***************************************************************************)
(* engines/dynamic/syscall_monitor.py: HookedRuntime and the module-level  *)
(* install_hooks / uninstall_hooks; engines/dynamic/file_monitor.py and    *)
(* memory_analyzer.py on the log it writes.                                *)
(*                                                                         *)
(* An entry point is a module attribute; its binding is the original       *)
(* function (0) or the _hooked_* bound method of a runtime.  The log goes  *)
(* to a log_queue.  ctypes.WinDLL does not exist on the platform.          *)
(***************************************************************************)
MaxRuntimes == 2

MaxHookOps == 4

MaxHookCalls == 2

Entries ==
    {"os.system", "os.popen", "subprocess.call", "subprocess.run",
     "subprocess.Popen", "socket.connect", "socket.connect_ex",
     "socket.create_connection", "open", "os.open", "os.remove", "os.unlink",
     "eval", "exec", "compile", "ctypes.CDLL", "mmap.mmap"}

FileEntries == {"open", "os.open", "os.remove", "os.unlink"}

\* file_monitor.py:25-36 FileMonitor.sensitive_files
sensitive_files ==
    {"/etc/passwd", "/etc/shadow", ".env", ".git/config", "config.json",
     "secrets.json", "credentials.json", "private_key", "id_rsa", "id_dsa"}

\* paths the target opens or removes
PathPool == {"/etc/passwd", "/tmp/a.txt", "/tmp/FILE.txt", "/tmp/[ALERT].txt"}

PlainPaths == {"/etc/passwd", "/tmp/a.txt"}

\* the calls of the target: the entry point, and what the hook looks at.
\* kind: for eval/exec whether source is a str or a code object, for compile
\* whether filename names an existing file; via: "" when the target calls,
\* else the library function that calls
PlainCall(entry) ==
    [entry |-> entry, path |-> "", mode |-> "", kind |-> "", via |-> ""]

CallPool ==
    {PlainCall(e) : e \in Entries \ (FileEntries \cup {"eval", "exec", "compile"})}
    \cup [entry : {"open"}, path : PathPool, mode : {"r", "w"}, kind : {""},
          via : {""}]
    \cup [entry : {"os.open"}, path : PlainPaths, mode : {"0", "1"}, kind : {""},
          via : {""}]
    \cup [entry : {"os.remove", "os.unlink"}, path : PlainPaths, mode : {""},
          kind : {""}, via : {""}]
    \cup [entry : {"eval", "exec"}, path : {""}, mode : {""},
          kind : {"str", "code"}, via : {""}]
    \cup [entry : {"compile"}, path : {""}, mode : {""},
          kind : {"new", "exists"}, via : {""}]

\* syscall_monitor.py:73-87 _operation_from_mode / _operation_from_flags
operation_of(c) ==
    IF c.entry \in {"os.remove", "os.unlink"} THEN "delete"
    ELSE IF c.entry = "open"
         THEN (IF \E flag \in {"w", "a", "+", "x"} : Contains(c.mode, flag)
               THEN "write" ELSE "read")
         ELSE (IF c.mode = "0" THEN "read" ELSE "write")

\* syscall_monitor.py:89-90 _is_sensitive_file
is_sensitive_file(file_path) ==
    \E sensitive \in sensitive_files : Contains(file_path, sensitive)

\* str.upper() of the three operations
Upper(operation) ==
    CASE operation = "read" -> "READ"
      [] operation = "write" -> "WRITE"
      [] operation = "delete" -> "DELETE"

\* syscall_monitor.py:131-139 _get_call_stack: the last three frames below
\* its own, "file:line" joined by " -> "
call_stack(c) ==
    IF c.via = ""
    THEN "/s/sandbox.py:133 -> /t/a.py:3 -> /s/syscall_monitor.py:243"
    ELSE "/s/syscall_monitor.py:208 -> /usr/lib/subprocess.py:389 -> /s/syscall_monitor.py:228"

\* syscall_monitor.py:110-112 the stamp _log puts before the message
Stamp == "[2024-01-01 10:00:00.000] "

\* syscall_monitor.py:92-96 _log_file_operation: the message
file_message(c) ==
    (IF is_sensitive_file(c.path) THEN "[ALERT]" ELSE "[INFO]")
    \o " FILE " \o Upper(operation_of(c)) \o ": " \o c.path
    \o " (mode: " \o c.mode \o ")" \o " | stack=" \o call_stack(c)

\* the message of the other hooks (syscall_monitor.py:141-351)
hook_message(c) ==
    IF c.entry \in FileEntries THEN file_message(c)
    ELSE IF c.entry \in {"eval", "exec", "compile"}
    THEN "[ALERT] CODE_EXEC: " \o c.entry \o " called with source='1+1'"
         \o " | stack=" \o call_stack(c)
    ELSE IF c.entry \in {"ctypes.CDLL", "mmap.mmap"}
    THEN "[ALERT] MEMORY: " \o c.entry \o " called" \o " | stack=" \o call_stack(c)
    ELSE IF c.entry \in {"socket.connect", "socket.connect_ex",
                         "socket.create_connection"}
    THEN "[ALERT] NETWORK: " \o c.entry \o " called with address='8.8.8.8:53'"
         \o " | stack=" \o call_stack(c)
    ELSE "[ALERT] SYSCALL: " \o c.entry \o " called with command='ls'"
         \o " | stack=" \o call_stack(c)

\* one element of the history of a call
LogEvent(rt, c, message) ==
    [k |-> "log", rt |-> rt, entry |-> c.entry, path |-> c.path,
     text |-> Stamp \o message]

RealEvent(c) ==
    [k |-> "real", rt |-> 0, entry |-> c.entry, path |-> c.path, text |-> ""]

\* whether the hook logs before it delegates: _hooked_eval / _hooked_exec only
\* when source is str or bytes (288, 300), _hooked_compile not when filename
\* exists (312-313)
hook_logs(c) ==
    ~ \/ c.entry \in {"eval", "exec"} /\ c.kind = "code"
      \/ c.entry = "compile" /\ c.kind = "exists"

\* a call of the function an entry point is bound to.  b = 0: the original,
\* which for subprocess.call / run and os.popen calls subprocess.Popen and for
\* socket.create_connection calls sock.connect, through the current bindings.
\* b > 0: runtime b's hook.  socket.socket.connect is set to a bound method
\* (372-373), so sock.connect(address) calls _hooked_socket_connect(address):
\* TypeError, `address` is missing.
RECURSIVE invoke(_, _, _, _)
invoke(b, c, env, tr) ==
    IF b = 0
    THEN LET tr1 == Append(tr, RealEvent(c))
         IN  IF c.entry \in {"subprocess.call", "subprocess.run", "os.popen"}
             THEN invoke(env.bound["subprocess.Popen"],
                         [c EXCEPT !.entry = "subprocess.Popen", !.via = c.entry],
                         env, tr1)
             ELSE IF c.entry = "socket.create_connection"
             THEN invoke(env.bound["socket.connect"],
                         [c EXCEPT !.entry = "socket.connect", !.via = c.entry],
                         env, tr1)
             ELSE [trace |-> tr1, raised |-> FALSE]
    ELSE IF c.entry \in {"socket.connect", "socket.connect_ex"}
    THEN [trace |-> tr, raised |-> TRUE]
    ELSE LET tr1 == IF hook_logs(c)
                    THEN Append(tr, LogEvent(b, c, hook_message(c)))
                    ELSE tr
             res == invoke(env.rts[b].orig[c.entry], c, env, tr1)
         IN  IF res.raised /\ hook_logs(c)
             THEN [trace |-> Append(res.trace,
                                 LogEvent(b, c, "[ERROR] " \o c.entry
                                                \o " execution failed")),
                   raised |-> TRUE]
             ELSE res

\* HookedRuntime.__init__ (22-55): nothing installed, no original saved (-1)
NewRuntime(by) ==
    [installed |-> FALSE, by |-> by, orig |-> [e \in Entries |-> -1]]

\* HookedRuntime.install_hooks (353-413) of runtime r, on [rts, bound, log]
install_hooks(r, st) ==
    IF st.rts[r].installed THEN st
    ELSE [rts |-> [st.rts EXCEPT ![r].installed = TRUE, ![r].orig = st.bound],
          bound |-> [e \in Entries |-> r],
          log |-> Append(st.log,
                      [k |-> "log", rt |-> r, entry |-> "", path |-> "",
                       text |-> Stamp \o "[INFO] Hooks installed successfully"])]

\* HookedRuntime.uninstall_hooks (415-460)
uninstall_hooks(r, st) ==
    IF ~st.rts[r].installed THEN st
    ELSE [rts |-> [st.rts EXCEPT ![r].installed = FALSE],
          bound |-> [e \in Entries |->
                        IF st.rts[r].orig[e] # -1 THEN st.rts[r].orig[e]
                        ELSE st.bound[e]],
          log |-> Append(st.log,
                      [k |-> "log", rt |-> r, entry |-> "", path |-> "",
                       text |-> Stamp \o "[INFO] Hooks uninstalled successfully"])]

\* ---- the analyzers of the log
\* the number of non-overlapping occurrences of sub in s from position p on
\* (len(s.split(sub)) - 1)
RECURSIVE CountSub(_, _, _)
CountSub(s, sub, p) ==
    LET H == {i \in p..(Len(s) - Len(sub) + 1) : SubSeq(s, i, i + Len(sub) - 1) = sub}
    IN  IF H = {} THEN 0 ELSE 1 + CountSub(s, sub, SetMin(H) + Len(sub))

\* the position of the first occurrence of sub in s, 0 if none
Find(s, sub) ==
    LET H == {i \in 1..(Len(s) - Len(sub) + 1) : SubSeq(s, i, i + Len(sub) - 1) = sub}
    IN  IF H = {} THEN 0 ELSE SetMin(H)

\* str.strip() for the blanks of the log lines
RECURSIVE Strip(_)
Strip(s) ==
    IF s # "" /\ Ch(s, 1) = " " THEN Strip(SubSeq(s, 2, Len(s)))
    ELSE IF s # "" /\ Ch(s, Len(s)) = " " THEN Strip(SubSeq(s, 1, Len(s) - 1))
    ELSE s

\* the text before / after the first occurrence of sub (s.split(sub, 1))
Before(s, sub) == IF Find(s, sub) = 0 THEN s ELSE SubSeq(s, 1, Find(s, sub) - 1)

After(s, sub) ==
    IF Find(s, sub) = 0 THEN "" ELSE SubSeq(s, Find(s, sub) + Len(sub), Len(s))

\* one attempt of r'([A-Za-z]:\\\\[^:]+|/[^:]+):(\\d+)' at position p.  In the
\* raw string `\\d+` is an escaped backslash followed by one or more letters
\* d, and `:\\\\` a colon and two backslashes.  The end of the match, or 0.
RECURSIVE RunOfD(_, _)
RunOfD(s, i) == IF i <= Len(s) /\ Ch(s, i) = "d" THEN RunOfD(s, i + 1) ELSE i - 1

EscapedMatchEnd(s, p) ==
    LET start == IF /\ p + 3 <= Len(s)
                    /\ Ch(s, p) \in Letters
                    /\ Ch(s, p + 1) = ":"
                    /\ Ch(s, p + 2) = "\\"
                    /\ Ch(s, p + 3) = "\\"
                 THEN p + 4
                 ELSE IF Ch(s, p) = "/" THEN p + 1 ELSE 0
        q == IF start = 0 THEN 0 ELSE NextColon(s, start)
    IN  IF /\ start # 0 /\ q > start /\ q + 2 <= Len(s)
           /\ Ch(s, q + 1) = "\\" /\ Ch(s, q + 2) = "d"
        THEN RunOfD(s, q + 2) ELSE 0

\* int(text) inside try / except ValueError: continue
int_or_skip(text) ==
    IF text # "" /\ \A i \in 1..Len(text) : Ch(text, i) \in Digits
    THEN <<IntOf(text, 1, Len(text))>> ELSE <<>>

\* file_monitor.py:127-134 / memory_analyzer.py:46-52: for each match,
\* int(match.group(2)); group 2 is the backslash and the letters d
stack_line_numbers(line) ==
    IF ~Contains(line, "stack=") THEN <<>>
    ELSE LET matches == SortedSeq({p \in 1..Len(line) :
                                      EscapedMatchEnd(line, p) # 0})
         IN  Flatten([k \in 1..Len(matches) |->
                 int_or_skip(SubSeq(line,
                                    NextColon(line, matches[k] + 1) + 1,
                                    EscapedMatchEnd(line, matches[k])))])

\* file_monitor.py:111-142: what one log line adds to operations
file_activity_of(line) ==
    IF ~Contains(line, "FILE") \/ CountSub(line, "FILE", 1) # 1 THEN <<>>
    ELSE LET operation_part == Strip(After(line, "FILE"))
         IN  IF ~Contains(operation_part, ":") THEN <<>>
             ELSE <<[operation |-> Lower(Strip(Before(operation_part, ":"))),
                     file_path |-> Strip(Before(After(operation_part, ":"), "(mode:")),
                     mode |-> IF Contains(operation_part, "(mode:")
                              THEN Strip(Before(After(operation_part, "(mode:"), ")"))
                              ELSE "",
                     is_sensitive |-> Contains(line, "[ALERT]"),
                     line_numbers |-> stack_line_numbers(line)]>>

\* file_monitor.py:84-144 analyze_file_activity(list of log entries)
analyze_file_activity(lines) ==
    Flatten([i \in 1..Len(lines) |-> file_activity_of(lines[i])])

\* memory_analyzer.py:42-58: what one log line adds to findings
memory_finding_of(line) ==
    IF Contains(line, "[ALERT] CODE_EXEC:") \/ Contains(line, "[ALERT] MEMORY:")
    THEN <<[type |-> IF Contains(line, "[ALERT] MEMORY:")
                     THEN "memory_api" ELSE "code_exec",
            detail |-> line,
            line_numbers |-> stack_line_numbers(line)]>>
    ELSE <<>>

\* memory_analyzer.py:12-60 analyze_memory(log_source = list of log entries)
analyze_memory(lines) ==
    Flatten([i \in 1..Len(lines) |-> memory_finding_of(lines[i])])

LogTexts(log) == [i \in 1..Len(log) |-> log[i].text]

HkIdle ==
    /\ hk_rts = <<>>
    /\ hk_global = 0
    /\ hk_bound = [e \in Entries |-> 0]
    /\ hk_log = <<>>
    /\ hk_call = NoResult
    /\ hk_trace = <<>>
    /\ hk_raised = FALSE
    /\ hk_ops = 0
    /\ hk_calls = 0
    /\ hk_pc = "run"
    /\ hk_file_acts = <<>>
    /\ hk_mem = <<>>

hkHistory == <<hk_call, hk_trace, hk_raised, hk_calls>>

hkAnalysis == <<hk_pc, hk_file_acts, hk_mem>>

HkState == [rts |-> hk_rts, bound |-> hk_bound, log |-> hk_log]

HkSet(st) ==
    /\ hk_rts' = st.rts
    /\ hk_bound' = st.bound
    /\ hk_log' = st.log
    /\ hk_ops' = hk_ops + 1

HkCanOperate == hk_pc = "run" /\ hk_ops < MaxHookOps

\* rt = HookedRuntime(log_queue = q)
RtNew ==
    /\ HkCanOperate
    /\ Len(hk_rts) < MaxRuntimes
    /\ HkSet([HkState EXCEPT !.rts = Append(hk_rts, NewRuntime("caller"))])
    /\ UNCHANGED <<hk_global, hkHistory, hkAnalysis, notHk>>

\* rt.install_hooks()
RtInstall(r) ==
    /\ HkCanOperate
    /\ r \in 1..Len(hk_rts)
    /\ hk_rts[r].by = "caller"
    /\ HkSet(install_hooks(r, HkState))
    /\ UNCHANGED <<hk_global, hkHistory, hkAnalysis, notHk>>

\* rt.uninstall_hooks()
RtUninstall(r) ==
    /\ HkCanOperate
    /\ r \in 1..Len(hk_rts)
    /\ hk_rts[r].by = "caller"
    /\ HkSet(uninstall_hooks(r, HkState))
    /\ UNCHANGED <<hk_global, hkHistory, hkAnalysis, notHk>>

\* syscall_monitor.py:467-478 install_hooks(log_queue = q): a new runtime
\* replaces _hook_runtime, then its install_hooks()
ModInstall ==
    /\ HkCanOperate
    /\ Len(hk_rts) < MaxRuntimes
    /\ hk_global' = Len(hk_rts) + 1
    /\ HkSet(install_hooks(Len(hk_rts) + 1,
                 [HkState EXCEPT !.rts = Append(hk_rts, NewRuntime("module"))]))
    /\ UNCHANGED <<hkHistory, hkAnalysis, notHk>>

\* syscall_monitor.py:481-485 uninstall_hooks()
ModUninstall ==
    /\ HkCanOperate
    /\ HkSet(IF hk_global # 0 THEN uninstall_hooks(hk_global, HkState)
             ELSE HkState)
    /\ UNCHANGED <<hk_global, hkHistory, hkAnalysis, notHk>>

\* the target calls an entry point
HkCall(c) ==
    /\ hk_pc = "run"
    /\ hk_calls < MaxHookCalls
    /\ LET res == invoke(hk_bound[c.entry], c,
                         [bound |-> hk_bound, rts |-> hk_rts], <<>>)
       IN  /\ hk_trace' = res.trace
           /\ hk_raised' = res.raised
           /\ hk_log' = hk_log \o SelectSeq(res.trace, LAMBDA ev : ev.k = "log")
    /\ hk_call' = [call |-> c, hooked |-> hk_bound[c.entry] # 0]
    /\ hk_calls' = hk_calls + 1
    /\ UNCHANGED <<hk_rts, hk_global, hk_bound, hk_ops, hkAnalysis, notHk>>

\* main_controller.py: file_activities = analyze_file_activity(log_entries),
\* memory_findings = analyze_memory(log_source = log_entries)
HkAnalyze ==
    /\ hk_pc = "run"
    /\ hk_calls > 0
    /\ hk_pc' = "analyzed"
    /\ hk_file_acts' = analyze_file_activity(LogTexts(hk_log))
    /\ hk_mem' = analyze_memory(LogTexts(hk_log))
    /\ UNCHANGED <<hk_rts, hk_global, hk_bound, hk_log, hk_ops, hkHistory, notHk>>

HkNext ==
    \/ RtNew
    \/ \E r \in 1..MaxRuntimes : RtInstall(r)
    \/ \E r \in 1..MaxRuntimes : RtUninstall(r)
    \/ ModInstall
    \/ ModUninstall
    \/ \E c \in CallPool : HkCall(c)
    \/ HkAnalyze


(***************************************************************************)
(* main_controller.py analyze_file, steps 2 to 4: from the findings of     *)
(* the static analyzers and the events of the run to the severity counters *)
(* of aggregate_results.  A piece of evidence is one record match_patterns *)
(* returns, one flow the taint analyzer returns, one call the Python       *)
(* target makes to a hooked entry point, one connection the Go/Java        *)
(* sampler sees, or the memory peak of a sampled Go/Java run.              *)
(***************************************************************************)
MaxPieces == 3

\* records match_patterns returns (pattern_matcher.py:60-75)
PipePatternPool ==
    {m \in PatternPool : m.rule_id \in {"rce_os_system", "file_write"}}

\* go_taint_analysis.py:189-200 and 212-225, the same keys in
\* java_taint_analysis.py: the flows of a Go/Java analyzer
GoFlowPool ==
    {[source_line |-> 4, sink_line |-> 5, rule_id |-> "go_rce_exec_command",
      severity |-> "critical", line |-> 5, matched_text |-> "exec.Command("],
     [source_line |-> 4, sink_line |-> 6, rule_id |-> "go_file_write",
      severity |-> "medium", line |-> 6, matched_text |-> "os.WriteFile("]}

PipeFlowPool(lang) ==
    IF lang = "python"
    THEN {f \in FlowPool : f.sink = "os.system"}
    ELSE GoFlowPool

\* calls the Python target makes while the hooks are installed
PipeCallPool ==
    {PlainCall("os.system"), PlainCall("socket.create_connection"),
     [PlainCall("open") EXCEPT !.path = "/etc/passwd", !.mode = "r"],
     [PlainCall("eval") EXCEPT !.kind = "str"]}

\* sandbox.py:106-150 _execute_with_hooks: one runtime installs its hooks, the
\* target makes its calls, the hooks are uninstalled; the entries logged
RECURSIVE run_calls(_, _)
run_calls(calls, st) ==
    IF calls = <<>> THEN st
    ELSE LET c == calls[1]
             res == invoke(st.bound[c.entry], c,
                           [bound |-> st.bound, rts |-> st.rts], <<>>)
         IN  run_calls(Tail(calls),
                 [st EXCEPT !.log = @ \o SelectSeq(res.trace,
                                                   LAMBDA ev : ev.k = "log")])

hooked_run_log(calls) ==
    LogTexts(uninstall_hooks(1, run_calls(calls,
        install_hooks(1, [rts |-> <<NewRuntime("caller")>>,
                          bound |-> [e \in Entries |-> 0],
                          log |-> <<>>]))).log)

\* network_monitor.py:48-50 network_pattern
NetworkKinds == {"connect", "connect_ex", "bind", "create_connection"}

network_pattern_type(line) ==
    {t \in NetworkKinds :
        Contains(line, "[ALERT] NETWORK: socket." \o t \o " called with address='")}

\* network_monitor.py:52-78 analyze_network_activity on the log entries
analyze_network_activity(lines) ==
    LET hits == SelectSeq(lines, LAMBDA l : network_pattern_type(l) # {})
    IN  [i \in 1..Len(hits) |->
            [type |-> CHOOSE t \in network_pattern_type(hits[i]) : TRUE,
             target |-> "8.8.8.8:53", line |-> hits[i]]]

\* main_controller.py:450-455: the entries kept as syscalls
syscalls_from_log(lines) ==
    LET kept == SelectSeq(lines,
                    LAMBDA l : Contains(l, "[ALERT] SYSCALL:")
                               \/ Contains(l, "[ALERT] NETWORK:"))
    IN  [i \in 1..Len(kept) |-> [is_dict |-> FALSE, text |-> kept[i]]]

\* fuzzer.py: the num_tests = 3 runs of main_controller.py:442-448, none of
\* which crashes
quiet_fuzz_results ==
    [i \in 1..3 |-> [crashed |-> FALSE, timed_out |-> FALSE, return_code |-> 0,
                     line_numbers |-> <<>>]]

\* main_controller.py:413-465: dynamic_results of a Python target
python_dynamic_results(calls) ==
    LET log_entries == hooked_run_log(calls)
    IN  [syscalls |-> syscalls_from_log(log_entries),
         network_activities |-> analyze_network_activity(log_entries),
         file_activities |-> analyze_file_activity(log_entries),
         memory_findings |-> analyze_memory(log_entries),
         fuzz_results |-> quiet_fuzz_results]

\* go_dynamic_runner.py:127-129 log_event
log_event(message) ==
    [is_dict |-> FALSE, text |-> "[2024-01-01T10:00:04] " \o message]

EmptyDynamic ==
    [syscalls |-> <<>>, network_activities |-> <<>>, file_activities |-> <<>>,
     memory_findings |-> <<>>, fuzz_results |-> <<>>]

\* go_dynamic_runner.py:80-322 run_go_dynamic, java_dynamic_runner.py
\* run_java_dynamic: skipped without psutil or the toolchain (100-108), else
\* every new connection is appended to network_activities and logged
\* (272-279), then process_exit is logged (298) and the memory peak recorded
\* (300-305)
sampled_dynamic_results(toolchain, conns) ==
    IF ~toolchain THEN EmptyDynamic
    ELSE [EmptyDynamic EXCEPT
            !.syscalls =
                [i \in 1..conns |-> log_event("socket_connect: main target=8.8.8.8:53")]
                \o <<log_event("process_exit: return_code=0 timed_out=False")>>,
            !.network_activities =
                [i \in 1..conns |->
                    [type |-> "connect", target |-> "8.8.8.8:53",
                     line |-> "NETWORK connect 8.8.8.8:53"]],
            !.memory_findings =
                <<[type |-> "memory_usage", line_numbers |-> <<>>]>>]

\* main_controller.py:306-312 (Python) and 339-345, 371-378 (Go, Java: the
\* taint flows are appended to pattern_matches): static_results
static_results_of(lang, pattern_matches, flows) ==
    [pattern_matches |-> IF lang = "python" THEN pattern_matches
                         ELSE pattern_matches \o flows,
     taint_flows |-> flows]

\* main_controller.py:504-508 aggregate_results(static_results,
\* dynamic_results)
pipeline_aggregate(lang, toolchain, pattern_matches, flows, calls, conns) ==
    LET st == static_results_of(lang, pattern_matches, flows)
        dy == IF lang = "python" THEN python_dynamic_results(calls)
              ELSE sampled_dynamic_results(toolchain, conns)
    IN  aggregate_results(
            [pattern_matches |-> st.pattern_matches,
             taint_flows |-> st.taint_flows,
             syscalls |-> dy.syscalls,
             network_activities |-> dy.network_activities,
             file_activities |-> dy.file_activities,
             fuzz_results |-> dy.fuzz_results,
             memory_findings |-> dy.memory_findings])

PlIdle ==
    /\ pl_pc = "idle"
    /\ pl_lang = "python"
    /\ pl_toolchain = FALSE
    /\ pl_pattern_matches = <<>>
    /\ pl_taint_flows = <<>>
    /\ pl_calls = <<>>
    /\ pl_conns = 0
    /\ pl_agg = NoResult

\* the pieces of evidence of the run
Pieces ==
    Len(pl_pattern_matches) + Len(pl_taint_flows) + Len(pl_calls) + pl_conns

\* analyze_file(file_path, config) on a file of the language; toolchain: psutil
\* and the language's toolchain are there
PipeStart(lang, toolchain) ==
    /\ pl_pc = "idle"
    /\ pl_pc' = "collect"
    /\ pl_lang' = lang
    /\ pl_toolchain' = toolchain
    /\ UNCHANGED <<pl_pattern_matches, pl_taint_flows, pl_calls, pl_conns,
                   pl_agg, notPl>>

\* match_patterns returns one more record
PipePatternMatch(m) ==
    /\ pl_pc = "collect"
    /\ Pieces < MaxPieces
    /\ pl_pattern_matches' = Append(pl_pattern_matches, m)
    /\ UNCHANGED <<pl_pc, pl_lang, pl_toolchain, pl_taint_flows, pl_calls,
                   pl_conns, pl_agg, notPl>>

\* the taint analyzer returns one more flow
PipeTaintFlow(f) ==
    /\ pl_pc = "collect"
    /\ Pieces < MaxPieces
    /\ pl_taint_flows' = Append(pl_taint_flows, f)
    /\ UNCHANGED <<pl_pc, pl_lang, pl_toolchain, pl_pattern_matches, pl_calls,
                   pl_conns, pl_agg, notPl>>

\* the Python target calls a hooked entry point
PipeHookedCall(c) ==
    /\ pl_pc = "collect"
    /\ pl_lang = "python"
    /\ Pieces < MaxPieces
    /\ pl_calls' = Append(pl_calls, c)
    /\ UNCHANGED <<pl_pc, pl_lang, pl_toolchain, pl_pattern_matches,
                   pl_taint_flows, pl_conns, pl_agg, notPl>>

\* the sampler of a Go/Java run sees a connection it has not seen
PipeSampledConnection ==
    /\ pl_pc = "collect"
    /\ pl_lang # "python"
    /\ pl_toolchain
    /\ Pieces < MaxPieces
    /\ pl_conns' = pl_conns + 1
    /\ UNCHANGED <<pl_pc, pl_lang, pl_toolchain, pl_pattern_matches,
                   pl_taint_flows, pl_calls, pl_agg, notPl>>

\* main_controller.py:504-508 step 4
PipeAggregate ==
    /\ pl_pc = "collect"
    /\ pl_pc' = "done"
    /\ pl_agg' = pipeline_aggregate(pl_lang, pl_toolchain, pl_pattern_matches,
                                    pl_taint_flows, pl_calls, pl_conns)
    /\ UNCHANGED <<pl_lang, pl_toolchain, pl_pattern_matches, pl_taint_flows,
                   pl_calls, pl_conns, notPl>>

PlNext ==
    \/ \E lang \in Langs : \E toolchain \in BOOLEAN : PipeStart(lang, toolchain)
    \/ \E m \in PipePatternPool : PipePatternMatch(m)
    \/ \E f \in PipeFlowPool(pl_lang) : PipeTaintFlow(f)
    \/ \E c \in PipeCallPool : PipeHookedCall(c)
    \/ PipeSampledConnection
    \/ PipeAggregate


(***************************************************************************)
(* The specifications.                                                     *)
(***************************************************************************)
\* every group of variables at its idle value
Idle ==
    /\ RiskIdle /\ ThrIdle /\ TaintIdle /\ SbIdle /\ MainIdle
    /\ LgIdle /\ CcIdle /\ MonIdle /\ FzIdle /\ PmIdle /\ CfgIdle /\ HkIdle /\ PlIdle

SpecRisk == Idle /\ [][RiskNext]_vars

SpecThreat == Idle /\ [][ThrNext]_vars

\* the analyzer of one of the three languages is about to read its input
TaintInit ==
    /\ RiskIdle
    /\ ThrIdle
    /\ SbIdle
    /\ MainIdle
    /\ LgIdle
    /\ CcIdle
    /\ MonIdle
    /\ FzIdle
    /\ PmIdle
    /\ CfgIdle
    /\ HkIdle
    /\ PlIdle
    /\ \E lang \in Langs : TaintFresh(lang)
SpecTaint == TaintInit /\ [][TaintNext]_vars

\* a sandbox run, and the fuzz case that records it
SpecSandbox == Idle /\ [][SbNext \/ FzNext]_vars

SpecMain == Idle /\ [][MainNext]_vars

SpecLog == Idle /\ [][LgNext]_vars

SpecConc == Idle /\ [][CcNext]_vars

SpecMonitor == Idle /\ [][MonNext]_vars

SpecPattern == Idle /\ [][PmNext]_vars

SpecCfg == Idle /\ [][CfgNext]_vars

SpecHook == Idle /\ [][HkNext]_vars

SpecPipe == Idle /\ [][PlNext]_vars

(***************************************************************************)
(* Properties.                                                             *)
(***************************************************************************)
\* the score formula of the specification, written out independently
ExpectedScore(b) ==
    LET raw == 30 * b.critical + 15 * b.high + 5 * b.medium + b.low
    IN  IF raw > 100 THEN 100 ELSE raw

ExpectedLevel(score) ==
    CASE score \in 80..100 -> "critical"
      [] score \in 50..79 -> "high"
      [] score \in 20..49 -> "medium"
      [] score \in 0..19 -> "low"

\* C1: assess_risk and assess_risk_from_counts both return
\* min(100, 30c + 15h + 5m + l) and the level with thresholds 80 / 50 / 20,
\* and agree on score, level, breakdown and threat_count for a threat list
\* and that list's severity histogram.
C1_RiskFormula ==
    risk_result # NoResult =>
        LET h == Histogram(risk_threats)
        IN  /\ risk_result.risk_score = ExpectedScore(h)
            /\ risk_result.risk_level = ExpectedLevel(ExpectedScore(h))
            /\ risk_counts_result.risk_score = ExpectedScore(h)
            /\ risk_counts_result.risk_level = ExpectedLevel(ExpectedScore(h))
            /\ risk_result.breakdown = h
            /\ risk_result.threat_count = Len(risk_threats)
            /\ risk_counts_result = risk_result

\* C1 witness: a list scoring exactly 79 (level high) has been assessed
C1_Witness ==
    /\ risk_result # NoResult
    /\ risk_result.risk_score = 79
    /\ risk_result.risk_level = "high"
    /\ risk_counts_result.risk_score = 79

ThreatTypes == {"RCE", "Command Injection", "WebShell", "Backdoor",
                "SQL Injection", "Network Exfiltration", "File Operation Risk",
                "Sensitive File Access", "Runtime Vulnerability",
                "Memory Injection"}

\* whether the bundle holds evidence of a category (section 4.7 of the
\* specification, with the evidence sources of the code)
HasEvidence(agg, X) ==
    LET P == Range(agg.pattern_matches)
        F == Range(agg.taint_flows)
        S == Range(agg.syscalls)
    IN  CASE X = "RCE" ->
               \/ \E m \in P : Contains(m.rule_id, "rce_")
                                  \/ Contains(m.matched_text, "os.system")
               \/ \E f \in F : StartsWith(f.sink, "os.system")
                                  \/ Contains(f.sink, "subprocess")
               \/ \E sc \in S : Contains(sc.text, "os.system")
                                   \/ Contains(sc.text, "subprocess")
          [] X = "Command Injection" ->
               \E f \in F : StartsWith(f.source, "sys.argv")
                               /\ StartsWith(f.sink, "os.system")
          [] X = "WebShell" -> \E m \in P : Contains(m.rule_id, "webshell_")
          [] X = "Backdoor" -> \E m \in P : Contains(m.rule_id, "backdoor_")
          [] X = "SQL Injection" ->
               \E m \in P : Contains(m.rule_id, "sql_injection")
          [] X = "Network Exfiltration" ->
               \/ \E m \in P : Contains(m.rule_id, "network_")
               \/ agg.network_activities # <<>>
               \/ \E sc \in S : Contains(sc.text, "[ALERT] NETWORK:")
          [] X = "File Operation Risk" ->
               \E m \in P : Contains(m.rule_id, "file_")
          [] X = "Sensitive File Access" ->
               \E a \in Range(agg.file_activities) : a.is_sensitive
          [] X = "Runtime Vulnerability" ->
               \E r \in Range(agg.fuzz_results) : r.crashed /\ ~r.timed_out
          [] X = "Memory Injection" -> agg.memory_findings # <<>>

\* C2: identify_threats returns at most one Threat per threat_type, a Threat
\* of category X is present exactly when the bundle holds evidence of X, and
\* no returned Threat has an empty evidence list.
C2_OneThreatPerCategory ==
    thr_pc = "done" =>
        /\ \A i, j \in 1..Len(threats) :
               threats[i].threat_type = threats[j].threat_type => i = j
        /\ \A i \in 1..Len(threats) : threats[i].threat_type \in ThreatTypes
        /\ \A X \in ThreatTypes :
               (\E i \in 1..Len(threats) : threats[i].threat_type = X)
                   <=> HasEvidence(aggregated, X)
        /\ \A i \in 1..Len(threats) : threats[i].evidence # <<>>

\* C2 witness: two RCE findings and one unrelated finding gave one RCE Threat
\* carrying both findings, and nothing else
C2_Witness ==
    /\ thr_pc = "done"
    /\ Len(threats) = 1
    /\ threats[1].threat_type = "RCE"
    /\ Len(threats[1].evidence) = 2
    /\ BundleSize(aggregated) = 3

\* the position just after the first "stack=" of a log entry (0 if none)
StackStart(text) ==
    LET K == {k \in 1..(Len(text) - 5) : SubSeq(text, k, k + 5) = "stack="}
    IN  IF K = {} THEN 0 ELSE SetMin(K) + 6

\* the line numbers of the `stack=file:line -> file:line` suffix of an entry
StackLines(text) ==
    IF StackStart(text) = 0 THEN {}
    ELSE Range(path_line_numbers(SubSeq(text, StackStart(text), Len(text)), 1))

\* the line numbers an evidence item carries: MustLines are those any
\* reading of the property requires, MayLines adds a taint flow's source line
MustLines(e) ==
    IF "log_entry" \in DOMAIN e THEN StackLines(e.log_entry)
    ELSE IF "rule_id" \in DOMAIN e THEN {e.line}
    ELSE IF "sink" \in DOMAIN e THEN {e.sink_line}
    ELSE IF "line_numbers" \in DOMAIN e THEN Range(e.line_numbers)
    ELSE IF "line" \in DOMAIN e THEN StackLines(e.line)
    ELSE {}

MayLines(e) ==
    IF "sink" \in DOMAIN e /\ "rule_id" \notin DOMAIN e
    THEN {e.source_line, e.sink_line}
    ELSE MustLines(e)

\* C10: every Threat's line_numbers is sorted ascending without duplicates
\* and is the union of the line numbers its evidence items carry (a taint
\* flow may stand with its sink line alone or with both of its lines).
C10_LinesAreEvidenceUnion ==
    thr_pc = "done" =>
        \A i \in 1..Len(threats) :
            LET t == threats[i]
                L == Range(t.line_numbers)
            IN  /\ \A a, b \in 1..Len(t.line_numbers) :
                       a < b => t.line_numbers[a] < t.line_numbers[b]
                /\ UNION {MustLines(e) : e \in Range(t.evidence)} \subseteq L
                /\ L \subseteq UNION {MayLines(e) : e \in Range(t.evidence)}

\* ---- taint analyzers
\* the line handled last is a sink call
IsSinkCall ==
    /\ t_lineno > 0
    /\ IF t_lang = "python"
       THEN t_cur.kind = "call" /\ is_taint_sink(t_cur.callee) # ""
       ELSE matched_sink(t_cur) # 0

\* the argument text of the line handled last mentions var
ArgMentions(var) ==
    IF t_lang = "python"
    THEN \E k \in 1..Len(t_cur.args) : ExprMentions(t_cur.args[k], var)
    ELSE var \in t_cur.uses

\* the line handled last contains a taint source
LineHasSource ==
    IF t_lang = "python"
    THEN \E k \in 1..Len(t_cur.args) : ExprHasSource(t_cur.args[k])
    ELSE t_cur.src

\* severity of the sink rule matched on the line handled last
SinkSeverity ==
    IF t_lang = "python" THEN "critical"
    ELSE sink_rules(t_lang)[matched_sink(t_cur)].severity

FlowsOfLine(L2) == SelectSeq(taint_flows, LAMBDA f : f.sink_line = L2)

\* C3: when line L1 assigned a taint source to a variable and line L2 >= L1 is
\* a sink call whose argument text mentions the variable, exactly one
\* variable_flow is emitted with source_line = L1 and sink_line = L2, and its
\* severity is the severity of the sink rule matched on L2.
C3_OneVariableFlow ==
    \A x \in Vars :
        (IsSinkCall /\ ArgMentions(x) /\ src_assign[x] > 0) =>
            LET fl == SelectSeq(FlowsOfLine(t_lineno), LAMBDA f :
                          f.type = "variable_flow" /\ f.source_line = src_assign[x])
            IN  /\ Len(fl) = 1
                /\ fl[1].severity = SinkSeverity

\* C4: a line that contains both a taint source and a sink gets exactly one
\* flow, of kind direct, with source_line = sink_line = the line's number.
C4_OneDirectFlow ==
    (IsSinkCall /\ LineHasSource) =>
        LET fl == FlowsOfLine(t_lineno)
        IN  /\ Len(fl) = 1
            /\ fl[1].type = "direct"
            /\ fl[1].source_line = t_lineno

\* ---- sandbox
\* C5: when the target is still running as the timeout elapses, run_in_sandbox
\* returns timed_out = true and the worker process is no longer running by the
\* time the call has returned.
C5_TimeoutKillsWorker ==
    (sb_pc = "returned" /\ sb_at_timeout # NoResult) =>
        /\ sb_result.timed_out
        /\ sb_worker \in {"killed", "exited"}

\* C6: when the target ends with an exception it raised and did not handle,
\* run_in_sandbox returns a non-zero return_code and the traceback is in the
\* returned stderr.
C6_ExceptionSurfaces ==
    (sb_pc = "returned" /\ ~sb_result.timed_out
        /\ sb_raised \in {"Exception", "BaseException"}) =>
        /\ sb_result.return_code # 0
        /\ "Traceback" \in Range(sb_result.stderr)

\* C9: a timed-out run returns what was collected before the timeout: the log
\* entries the hooks had emitted and the stdout and stderr text the target had
\* produced.
C9_PartialOutputKept ==
    (sb_pc = "returned" /\ sb_at_timeout # NoResult) =>
        /\ IsPrefix(sb_at_timeout.log, sb_result.log_entries)
        /\ IsPrefix(sb_at_timeout.stdout, sb_result.stdout)
        /\ Range(sb_at_timeout.stderr) \subseteq Range(sb_result.stderr)

\* ---- main controller
\* C7: analyze_file and analyze_multiple_files never raise to their caller:
\* every call returns a result record, and the record's error field is set
\* when something failed.
C7_NeverRaises ==
    /\ m_pc # "raised"
    /\ (m_pc = "returned" /\ m_failed) => m_results.error # ""

\* C8: when the source has a syntax error, analyze_file reports syntax_valid =
\* false in static_results and the remaining stages (dynamic analysis,
\* aggregation, threat identification, risk assessment) still contribute.
C8_SyntaxErrorDoesNotAbort ==
    (/\ m_fn = "analyze_file"
     /\ m_pc = "returned"
     /\ ~m_results.skipped
     /\ ~m_failed
     /\ ~m_input.dependency_only
     /\ ~m_input.syntax_ok
     /\ m_input.enable_static
     /\ m_input.enable_dynamic) =>
        /\ m_results.static_results = "filled"
        /\ ~m_results.syntax_valid
        /\ m_results.dynamic_results = "filled"
        /\ m_results.aggregated
        /\ m_results.threats
        /\ m_results.risk_assessment

\* ---- aggregator
\* the number of items of a list that satisfy Test
CountOf(seq, Test(_)) == Cardinality({i \in 1..Len(seq) : Test(seq[i])})

\* C11: the summary of aggregate_results obeys the counting rules (pattern
\* matches under their own severity, taint flows critical, syscall entries
\* naming os.system or subprocess critical and otherwise those naming socket
\* medium, network activities medium, file activities high if sensitive else
\* low, memory findings high if memory_api else medium, crashing fuzz results
\* medium), total_threats is the sum of the four counters, and the input
\* lists are passed through unchanged.
C11_CountingRules ==
    thr_pc = "done" =>
        LET a == aggregated
            IsExec(x) == Contains(x.text, "os.system") \/ Contains(x.text, "subprocess")
            IsSock(x) == ~IsExec(x) /\ Contains(x.text, "socket")
            Sev(v) == CountOf(a.pattern_matches, LAMBDA m : Lower(m.severity) = v)
            sm == agg_result.summary
        IN  /\ sm.critical_count = Sev("critical") + Len(a.taint_flows)
                                   + CountOf(a.syscalls, IsExec)
            /\ sm.high_count = Sev("high")
                               + CountOf(a.file_activities, LAMBDA f : f.is_sensitive)
                               + CountOf(a.memory_findings, LAMBDA f : f.type = "memory_api")
            /\ sm.medium_count = Sev("medium") + CountOf(a.syscalls, IsSock)
                                 + Len(a.network_activities)
                                 + CountOf(a.memory_findings, LAMBDA f : f.type # "memory_api")
                                 + CountOf(a.fuzz_results, LAMBDA r : r.crashed)
            /\ sm.low_count = Sev("low")
                              + CountOf(a.file_activities, LAMBDA f : ~f.is_sensitive)
            /\ sm.total_threats = sm.critical_count + sm.high_count
                                  + sm.medium_count + sm.low_count
            /\ lists_of(agg_result) = a

\* C11 witness: a bundle with a code_exec memory finding, a socket-only log
\* entry and an upper-case pattern severity has been aggregated
C11_Witness ==
    /\ thr_pc = "done"
    /\ \E i \in 1..Len(aggregated.memory_findings) :
           aggregated.memory_findings[i].type = "code_exec"
    /\ \E i \in 1..Len(aggregated.syscalls) :
           aggregated.syscalls[i].text = LogConnect
    /\ \E i \in 1..Len(aggregated.pattern_matches) :
           aggregated.pattern_matches[i].severity = "HIGH"
    /\ agg_result.summary.total_threats = 3

\* ---- the clean run
\* no rule matched, no taint flow, no ALERT event of any kind was logged
\* (syscall, network, sensitive file, code execution, memory API) and no fuzz
\* input crashed
CleanRun(a) ==
    /\ a.pattern_matches = <<>>
    /\ a.taint_flows = <<>>
    /\ \A i \in 1..Len(a.syscalls) : ~Contains(a.syscalls[i].text, "[ALERT]")
    /\ a.network_activities = <<>>
    /\ \A i \in 1..Len(a.file_activities) : ~a.file_activities[i].is_sensitive
    /\ \A i \in 1..Len(a.fuzz_results) : ~a.fuzz_results[i].crashed
    /\ \A i \in 1..Len(a.memory_findings) :
           a.memory_findings[i].type = "memory_usage"

\* C12: for a clean run (no rule match, no taint flow, no ALERT event, no
\* fuzz crash) aggregate_results -> identify_threats -> assess_risk yields no
\* threat, risk_score 0 and risk_level "low".
C12_CleanRunNoThreat ==
    (thr_pc = "done" /\ CleanRun(aggregated)) =>
        /\ threats = <<>>
        /\ thr_risk.risk_score = 0
        /\ thr_risk.risk_level = "low"

\* ---- the event log
\* C13: the log_entries one sandbox run returns are in emission order (an
\* entry timestamped before another precedes it), also when several threads of
\* the target log concurrently, and no emitted entry is lost or merged.
C13_EmissionOrder ==
    lg_pc = "returned" => lg_entries = lg_emitted

\* ---- concurrent analyses
\* C14: two analyses running concurrently share no mutable resource: each run
\* writes its own log destination and its own report files, so no run
\* overwrites the logs or reports of another, for any interleaving and any
\* pair of input files.
C14_NoSharedFiles ==
    \A c \in Calls :
        /\ cc_pc[c] \in {"reports", "done"} => cc_fs[cc_log_file[c]] = <<c>>
        /\ cc_pc[c] = "done" => cc_fs[cc_reports[c]] = <<c>>

\* ---- the process monitors
\* C15: if the target is still running when the timeout elapses, the call
\* returns timed_out = true and, by the time it returns, the target process
\* and the child processes it spawned have been terminated.
C15_TimeoutTerminatesAll ==
    (mon_pc = "returned" /\ mon_timed_out) =>
        /\ mon_target # "running"
        /\ mon_child # "running"

\* C16: across all samples of one monitored run, file_activities has exactly
\* one entry per distinct (pid, path, mode) observed and network_activities
\* exactly one per distinct (pid, local address, remote address, status)
\* observed; a network entry is 'connect' with the remote address as target
\* if the connection has a remote address, else 'bind' with the local address.
C16_OneEntryPerKey ==
    /\ Len(mon_file_acts) = Cardinality(mon_obs_files)
    /\ Len(mon_network) = Cardinality(mon_obs_net)
    /\ Range(mon_network) =
           {IF conn.raddr # "" THEN [type |-> "connect", target |-> conn.raddr]
            ELSE [type |-> "bind", target |-> conn.laddr] : conn \in mon_obs_net}

\* C17: a target that opens a single outbound connection to address A yields
\* exactly one network_activities entry, {connect, A}, however many samples
\* observe the connection and whatever states it passes through.
C17_SingleConnectionOneEntry ==
    (mon_pc = "returned" /\ mon_obs_net # {}
        /\ \A conn \in mon_obs_net : conn.raddr = AddrA) =>
        mon_network = <<[type |-> "connect", target |-> AddrA]>>

\* ---- fuzzer
\* the record of the fuzz case that ran in the sandbox
SandboxCase == fz_results[Len(fz_results)]

\* C18: a fuzz case is crashed iff (return_code != 0 and the run did not time
\* out) or stderr holds a traceback/error marker; a run that merely timed out
\* is not crashed; a case whose sandbox invocation raises is crashed with
\* timed_out = false; and a target that raises an unhandled exception yields a
\* case with crashed = true, timed_out = false that surfaces as one Runtime
\* Vulnerability threat of severity medium.
C18_CrashClassification ==
    /\ fz_done =>
        /\ SandboxCase.crashed <=>
              \/ (sb_result.return_code # 0 /\ ~sb_result.timed_out)
              \/ "Traceback" \in Range(sb_result.stderr)
        /\ (sb_at_timeout # NoResult /\ sb_raised = "") => ~SandboxCase.crashed
        /\ sb_raised \in {"Exception", "BaseException"} =>
              /\ SandboxCase.crashed
              /\ ~SandboxCase.timed_out
              /\ LET ts == runtime_threat(fz_results)
                 IN  /\ Len(ts) = 1
                     /\ ts[1].threat_type = "Runtime Vulnerability"
                     /\ ts[1].severity = "medium"
    /\ (fz_results # <<>> /\ ~fz_done) =>
           fz_results[1].crashed /\ ~fz_results[1].timed_out

\* ---- pattern matcher
\* the occurrences a rule list has in the source: (rule index, line, column)
Occurrences(lines, rules) ==
    {o \in (1..Len(rules)) \X (1..Len(lines)) \X (1..2) :
        /\ rules[o[1]].compiles = "yes"
        /\ o[3] <= Len(lines[o[2]])
        /\ lines[o[2]][o[3]] = rules[o[1]].pattern}

\* C19: the list match_patterns returns is sorted by ascending line number,
\* has one entry per match occurrence, every entry's matched_text occurs on
\* the line it reports, and a rule whose pattern is invalid or raises is
\* skipped without affecting the matches of the other rules.
C19_SortedOnePerOccurrence ==
    pm_pc = "done" =>
        /\ \A i, j \in 1..Len(pm_matches) :
               i < j => pm_matches[i].line <= pm_matches[j].line
        /\ Len(pm_matches) = Cardinality(Occurrences(pm_lines, pm_rules))
        /\ \A o \in Occurrences(pm_lines, pm_rules) :
               \E i \in 1..Len(pm_matches) :
                   /\ pm_matches[i].rule_id = pm_rules[o[1]].id
                   /\ pm_matches[i].line = o[2]
                   /\ pm_matches[i].col_offset = o[3] - 1
        /\ \A i \in 1..Len(pm_matches) :
               pm_matches[i].matched_text \in Range(pm_lines[pm_matches[i].line])
        /\ pm_matches = match_patterns(pm_lines,
               SelectSeq(pm_rules, LAMBDA r : r.compiles = "yes"))

\* C19 witness: the first rule matches on line 2 only, a later rule matches
\* line 1 twice, and a rule that does not compile stands between them
C19_Witness ==
    /\ pm_pc = "done"
    /\ pm_lines = <<<<"eval", "eval">>, <<"exec", "eval">>>>
    /\ Len(pm_rules) = 3
    /\ pm_rules[1].id = "r_exec"
    /\ pm_rules[2].id = "r_paren"
    /\ pm_rules[3].id = "r_eval"
    /\ Len(pm_matches) = 4

\* ---- control-flow structures
\* C20: for every structure a CFG analyzer returns (Python AST walker, Go
\* brace counter), body_lines is sorted ascending, has no duplicates, and
\* every value lies strictly between start_line and end_line.
C20_BodyLinesInside ==
    \A i \in 1..Len(cfg_structures) :
        LET st == cfg_structures[i]
        IN  /\ \A j, k \in 1..Len(st.body_lines) :
                   j < k => st.body_lines[j] < st.body_lines[k]
            /\ \A j \in 1..Len(st.body_lines) :
                   st.start_line < st.body_lines[j]
                   /\ st.body_lines[j] < st.end_line

\* C21: the flows of one taint analysis are deduplicated by the key
\* (source_line, sink_line, variable-or-"direct", rule_id): no two emitted
\* flows share a key, and when several tainted variables alias one origin and
\* appear on the same sink line, the flow from that origin to that sink is
\* emitted only once.
C21_FlowsDeduplicated ==
    \A a, b \in 1..Len(taint_flows) :
        a < b =>
            LET f == taint_flows[a]
                g == taint_flows[b]
            IN  /\ <<f.source_line, f.sink_line, f.type, f.tainted_var, f.sink>>
                       # <<g.source_line, g.sink_line, g.type, g.tainted_var, g.sink>>
                /\ (f.type = "variable_flow" /\ g.type = "variable_flow") =>
                       <<f.source_line, f.sink_line, f.sink>>
                           # <<g.source_line, g.sink_line, g.sink>>

\* ---- runtime hooks
\* the level tag that follows the stamp of a log entry
Tagged(text, level) ==
    StartsWith(SubSeq(text, Len(Stamp) + 1, Len(text)), level)

\* the log entries the file hooks wrote for the opens and removes of the target
FileLogEntries ==
    {i \in 1..Len(hk_log) : hk_log[i].entry \in FileEntries}

\* C22: for every open / remove through a hooked entry point, the FILE log
\* line is tagged [ALERT] if the path matches the sensitive-path list and
\* [INFO] otherwise, and the FileActivity derived from that line has
\* is_sensitive = true exactly when the line is tagged [ALERT].
C22_FileTagAndSensitivity ==
    \A i \in FileLogEntries :
        LET text == hk_log[i].text
            sensitive == \E s \in sensitive_files : Contains(hk_log[i].path, s)
            derived == file_activity_of(text)
        IN  /\ Tagged(text, IF sensitive THEN "[ALERT]" ELSE "[INFO]")
            /\ \A k \in 1..Len(derived) :
                   derived[k].is_sensitive = Tagged(text, "[ALERT]")

\* ---- risk assessor, relations
\* the count vectors that are component-wise at most b
CountsBelow(b) ==
    [critical : 0..b.critical, high : 0..b.high, medium : 0..b.medium,
     low : 0..b.low]

\* C23: the risk assessor is monotonic and bounded: a count vector that is
\* component-wise at most the assessed one never scores higher, and the
\* score of every count vector lies in [0, 100].
C23_MonotonicBounded ==
    risk_counts_result # NoResult =>
        /\ risk_counts_result.risk_score \in 0..100
        /\ risk_result.risk_score \in 0..100
        /\ \A g \in CountsBelow(risk_counts_result.breakdown) :
               /\ assess_risk_from_counts(g).risk_score
                      <= risk_counts_result.risk_score
               /\ assess_risk_from_counts(g).risk_score \in 0..100

\* C23 witness: a list whose unclamped sum is 123 has been assessed (score
\* 100), and a smaller count vector scores strictly less
C23_Witness ==
    /\ risk_counts_result # NoResult
    /\ risk_counts_result.breakdown =
           [critical |-> 4, high |-> 0, medium |-> 0, low |-> 3]
    /\ risk_counts_result.risk_score = 100
    /\ \E g \in CountsBelow(risk_counts_result.breakdown) :
           assess_risk_from_counts(g).risk_score < 100

\* ---- taint propagation
\* whether var is tainted, and the source line its taint is attributed to
IsTainted(var) ==
    IF t_lang = "python" THEN var \in current_tainted_vars
    ELSE KeyIndex(tainted_vars, var) # 0

OriginOf(var) ==
    IF t_lang = "python" THEN var_assignments[var]
    ELSE tainted_vars[KeyIndex(tainted_vars, var)].source_line

\* the statement s is an assignment without a taint source of its own
IsPlainAssignment(s) ==
    IF t_lang = "python"
    THEN s.kind = "assign" /\ ~ExprHasSource(s.value)
    ELSE s.lhs # <<>> /\ ~s.src

\* the variables an assignment assigns / the variables its right-hand side
\* references as whole identifiers
AssignedBy(s) == IF t_lang = "python" THEN {s.target} ELSE Range(s.lhs)

ReferencedBy(s) ==
    IF t_lang = "python" THEN {u \in Vars : ExprMentions(s.value, u)}
    ELSE s.uses

\* C24: in every language variant, when the right-hand side of an assignment
\* references an already-tainted variable as a whole identifier (alone or
\* inside a larger expression), every variable the statement assigns becomes
\* tainted with the referenced variable's origin, so that a later sink line
\* using it yields a flow whose source_line is the original source line.
C24_PropagationKeepsOrigin ==
    [][ LET referenced == {u \in ReferencedBy(t_cur') : IsTainted(u)}
        IN  (t_lineno' = t_lineno + 1 /\ IsPlainAssignment(t_cur')
             /\ referenced # {}) =>
                \A x \in AssignedBy(t_cur') :
                    /\ IsTainted(x)'
                    /\ OriginOf(x)' \in {OriginOf(u) : u \in referenced}
      ]_vars

\* C25: whenever the Python analyzer reports a flow (direct or variable_flow)
\* whose taint originates from sys.argv and whose sink is os.system,
\* identify_threats on the aggregated bundle returns a Command Injection
\* threat of severity critical whose line_numbers contain the flow's sink line.
C25_CommandInjectionReported ==
    (t_lang = "python" /\ t_threats # NoResult) =>
        \A i \in 1..Len(taint_flows) :
            taint_flows[i].sink = "os.system" =>
                \E k \in 1..Len(t_threats.threats) :
                    LET threat == t_threats.threats[k]
                    IN  /\ threat.threat_type = "Command Injection"
                        /\ threat.severity = "critical"
                        /\ taint_flows[i].sink_line \in Range(threat.line_numbers)

\* the positions of the history of the last call that hold an ALERT / INFO log
\* event of the called entry point, and those that hold an invocation of its
\* real implementation
CallLogEvents ==
    {i \in 1..Len(hk_trace) :
        /\ hk_trace[i].k = "log"
        /\ hk_trace[i].entry = hk_call.call.entry
        /\ Tagged(hk_trace[i].text, "[ALERT]") \/ Tagged(hk_trace[i].text, "[INFO]")}

CallRealInvocations ==
    {i \in 1..Len(hk_trace) :
        hk_trace[i].k = "real" /\ hk_trace[i].entry = hk_call.call.entry}

\* C26: every call the target makes to a hooked entry point appends exactly
\* one ALERT / INFO log event for that call, and the event is appended before
\* the real implementation is invoked.
C26_OneEventBeforeReal ==
    (hk_call # NoResult /\ hk_call.hooked) =>
        /\ Cardinality(CallLogEvents) = 1
        /\ \A i \in CallLogEvents : \A j \in CallRealInvocations : i < j

\* C27: for every runtime log line of category FILE, CODE_EXEC or MEMORY that
\* carries a `stack=file:line -> file:line` suffix, the finding that
\* analyze_file_activity / analyze_memory derive from it has line_numbers
\* containing each line number of that stack suffix.
C27_StackLinesRecovered ==
    hk_pc = "analyzed" =>
        /\ \A k \in 1..Len(hk_mem) :
               StackLines(hk_mem[k].detail) \subseteq Range(hk_mem[k].line_numbers)
        /\ \A i \in FileLogEntries :
               \A k \in 1..Len(hk_file_acts) :
                   hk_file_acts[k].file_path = hk_log[i].path =>
                       StackLines(hk_log[i].text)
                           \subseteq Range(hk_file_acts[k].line_numbers)

\* C28: along the analyze_file pipeline every piece of evidence (a pattern
\* match, a taint flow, a hooked call of the target, a sampled connection, the
\* memory peak of a sampled run) increments the severity counters of
\* aggregate_results at most once: the total is at most the number of pieces.
MemoryPeak == IF pl_lang # "python" /\ pl_toolchain THEN 1 ELSE 0

C28_EvidenceCountedOnce ==
    pl_pc = "done" =>
        pl_agg.summary.total_threats <= Pieces + MemoryPeak

\* C29: in queue log mode, when the target's code has ended (other than by a
\* BaseException that escapes the worker) before the timeout elapses,
\* run_in_sandbox returns timed_out = false with the return_code, stdout and
\* stderr the worker put on result_queue, however many log events the target
\* queued; and a result with timed_out = true has return_code -1.
TargetEndedInTime ==
    /\ sb_raised \notin {"", "BaseException"}
    /\ (sb_at_timeout # NoResult => sb_at_timeout.raised = sb_raised)

C29_QueueResultMatchesWorker ==
    (sb_pc = "returned" /\ sb_mode = "queue") =>
        /\ TargetEndedInTime =>
              /\ sb_result.timed_out = FALSE
              /\ sb_result.return_code = queue_return_code(sb_raised)
              /\ sb_result.stdout = sb_stdout
              /\ sb_result.stderr = sb_stderr
        /\ sb_result.timed_out => sb_result.return_code = 0 - 1

\* C30: hook installation is reversible.  After a sequence of install_hooks /
\* uninstall_hooks calls that ends with the hooks uninstalled (no runtime the
\* caller holds, and not the module-level runtime, is installed) every entry
\* point is bound to the function it was bound to before the first
\* installation; install_hooks on an installed runtime changes neither the
\* bindings nor the runtimes; and a call to a hooked entry point whose hook
\* logs and whose implementation reaches no other hooked entry point is logged
\* once.
HeldRuntimes ==
    {r \in 1..Len(hk_rts) : hk_rts[r].by = "caller" \/ r = hk_global}

HooksUninstalled ==
    /\ hk_rts # <<>>
    /\ \A r \in HeldRuntimes : ~hk_rts[r].installed

BindingsRestored == \A e \in Entries : hk_bound[e] = 0

ReinstallChangesNothing ==
    \A r \in 1..Len(hk_rts) :
        (hk_rts[r].installed /\ RtInstall(r)) =>
            (hk_bound' = hk_bound /\ hk_rts' = hk_rts /\ hk_log' = hk_log)

LeafEntries ==
    {"os.system", "subprocess.Popen", "open", "os.open", "os.remove",
     "os.unlink", "ctypes.CDLL", "mmap.mmap"}

LoggedOnce ==
    (/\ hk_call # NoResult
     /\ hk_call.hooked
     /\ hk_call.call.entry \in LeafEntries) =>
        Cardinality(CallLogEvents) = 1

C30_InstallationReversible ==
    /\ [](HooksUninstalled => BindingsRestored)
    /\ [][ReinstallChangesNothing]_vars
    /\ []LoggedOnce

====
